---- MODULE Spec2Model ----
(***************************************************************************)
(* Model of the consolidated entity API of the news reader backend:        *)
(* the batch coordinator (createOrUpdateEntities, getEntities,             *)
(* deleteEntities in backend/routes/entity.routes.js), the validators,     *)
(* the per-kind store adapters (mongodb/models) and the article            *)
(* controller.  A collection is the sequence of its documents in           *)
(* insertion order; a document is a function from field names to values.   *)
(* The batch handlers and the article controller are modelled from the     *)
(* point where the binding `models` refers to the registry of adapters of  *)
(* mongodb/models; the listing and search handlers take what               *)
(* db.getModels() gave them as a parameter.  registry is the module        *)
(* variable _models of mongodb/db.js, calls the registry and adapter calls *)
(* a listing or search handler made for the request being answered.        *)
(***************************************************************************)
EXTENDS Integers, Sequences, FiniteSets, TLC

VARIABLES store, nextUuid, now, req, res, pre, registry, calls, handle, tasks

vars == <<store, nextUuid, now, req, res, pre, registry, calls, handle, tasks>>

(***************************************************************************)
(* Bounds of the model.                                                    *)
(***************************************************************************)
MaxItems == 2      \* items of one request, all kinds together
MaxUuid == 2       \* calls of uuidv4() in one behaviour
MaxClock == 1      \* readings of the clock that differ
MaxArticles == 2   \* documents in the articles collection
MaxSubs == 2       \* subcategories addSubcategory gives one category
MaxTasks == 2      \* calls in flight at the same time
MaxClients == 3    \* clients created in one behaviour

(***************************************************************************)
(* Names.                                                                  *)
(***************************************************************************)
Kinds == {"topics", "categories", "events", "notes"}

KindOrder == <<"topics", "categories", "events", "notes">>

Collections == Kinds \cup {"articles"}

\* the singular used in the messages of a kind's section of the handlers
Label(kind) ==
  CASE kind = "topics" -> [cap |-> "Topic", low |-> "topic"]
    [] kind = "categories" -> [cap |-> "Category", low |-> "category"]
    [] kind = "events" -> [cap |-> "Event", low |-> "event"]
    [] kind = "notes" -> [cap |-> "Note", low |-> "note"]

\* the request key of DELETE /entities and GET /entities for a kind
IdsKey(kind) ==
  CASE kind = "topics" -> "topicIds"
    [] kind = "categories" -> "categoryIds"
    [] kind = "events" -> "eventIds"
    [] kind = "notes" -> "noteIds"

(***************************************************************************)
(* Values.  uuidv4() is the next unused identifier; strings that carry     *)
(* surrounding white space are Pad(s).                                     *)
(***************************************************************************)
\* every call returns the same identifier
Uuid_same(n) == "u1"

Uuid(n) == "u" \o ToString(n)

Pad(s) == " " \o s \o " "

\* identifiers a client can send that no uuidv4() call returns
ClientIds == {"x1"}

Unpadded == {""} \cup ClientIds \cup {Uuid(n) : n \in 1..(MaxUuid + 1)} \cup {"A", "B"}

\* String.prototype.trim / Joi.string().trim() with conversion
Trim(s) == IF \E t \in Unpadded : s = Pad(t) THEN CHOOSE t \in Unpadded : s = Pad(t) ELSE s

Has(d, f) == f \in DOMAIN d

\* a JavaScript value used as a condition: undefined, "", 0 and false are falsy
TruthyStr(d, f) == Has(d, f) /\ d[f] # ""

TruthyNum(d, f) == Has(d, f) /\ d[f] # 0

TruthyBool(d, f) == Has(d, f) /\ d[f]

\* null, as findOne and the adapters' create return it
Null == <<>>

SeqToSet(q) == {q[i] : i \in 1..Len(q)}

\* { ...a, ...b } and the effect of $set: b's fields over a's
Merge(a, b) == [f \in (DOMAIN a) \cup (DOMAIN b) |-> IF f \in DOMAIN b THEN b[f] ELSE a[f]]

Restrict(d, keys) == [f \in (DOMAIN d) \cap keys |-> d[f]]

(***************************************************************************)
(* Entity Validator (backend/utils/validators): Joi schemas with           *)
(* stripUnknown and abortEarly=false.                                      *)
(***************************************************************************)
SchemaKeys(kind) ==
  CASE kind = "topics" -> <<"id", "name", "description", "image_urls", "keywords", "articles_ids",
                            "categories_ids", "related_topics_ids", "timeline", "unread_count", "priority">>
    [] kind = "categories" -> <<"id", "name", "description", "image_urls", "keywords", "topics_ids",
                                "subcategories", "unread_count", "priority">>
    [] kind = "events" -> <<"id", "date", "description", "image_urls", "related_events_ids",
                            "articles_ids", "timeline", "unread_count", "priority">>
    [] kind = "notes" -> <<"id", "content", "created_at", "updated_at", "reference_type", "reference_id",
                           "tags", "metadata", "priority", "is_archived">>
    [] kind = "articles" -> <<"id", "title", "publisher", "author", "published_date", "url", "summary",
                              "image_urls", "keywords", "topics_ids", "categories_ids",
                              "related_topics_ids", "events_ids", "topics_scores", "events_scores",
                              "original_article", "unread_count", "priority">>

\* keys with .required() when isUpdate is false
RequiredKeys(kind) ==
  CASE kind = "topics" -> {"name"}
    [] kind = "categories" -> {"name"}
    [] kind = "events" -> {"date", "description"}
    [] kind = "notes" -> {"content", "reference_type", "reference_id"}
    [] kind = "articles" -> {"title", "url"}

\* keys declared Joi.string().trim()
TrimmedKeys(kind) ==
  CASE kind = "topics" -> {"id", "name"}
    [] kind = "categories" -> {"id", "name"}
    [] kind = "events" -> {"id"}
    [] kind = "notes" -> {"id", "reference_id"}
    [] kind = "articles" -> {"id", "title", "publisher", "author"}

\* keys declared Joi.string() without .allow(''): the empty string is rejected
NonEmptyKeys(kind) ==
  CASE kind = "topics" -> {"id", "name"}
    [] kind = "categories" -> {"id", "name"}
    [] kind = "events" -> {"id", "description"}
    [] kind = "notes" -> {"id", "content", "reference_type", "reference_id"}
    [] kind = "articles" -> {"id", "title", "url"}

validReferenceTypes == {"article", "topic", "category", "event"}

\* Joi.string().uri(): the strings of the model that are URIs
IsUri(v) == v \in {"http://a"}

Quote(f) == "\"" \o f \o "\""

\* the conversion Joi applies to an accepted value
\* subcategorySchema: id and name are Joi.string().trim().required()
SubcategoryRequired == <<"id", "name">>

\* an item of subcategories as Joi converts it
ConvertSubcategory(sub) ==
  [f \in DOMAIN sub |-> IF f \in SeqToSet(SubcategoryRequired) THEN Trim(sub[f]) ELSE sub[f]]

Convert(kind, f, v) ==
  IF f \in TrimmedKeys(kind) THEN Trim(v)
  ELSE IF kind = "categories" /\ f = "subcategories"
    THEN [n \in 1..Len(v) |-> ConvertSubcategory(v[n])]
  ELSE v

\* the message of the first item of subcategories without a required key,
\* "" when every item has them
SubcategoriesError(v) ==
  LET lacks(n) == \E m \in 1..2 : ~Has(v[n], SubcategoryRequired[m])
      n == CHOOSE x \in 1..Len(v) : lacks(x) /\ \A y \in 1..(x - 1) : ~lacks(y)
      key == IF ~Has(v[n], "id") THEN "id" ELSE "name"
  IN IF \A x \in 1..Len(v) : ~lacks(x) THEN ""
     ELSE Quote("subcategories[" \o ToString(n - 1) \o "]." \o key) \o " is required"

\* the message of the first rule key f violates with value v, "" when none
FieldError(kind, f, v) ==
  IF f \in NonEmptyKeys(kind) /\ Convert(kind, f, v) = ""
    THEN Quote(f) \o " is not allowed to be empty"
  ELSE IF kind = "notes" /\ f = "reference_type" /\ v \notin validReferenceTypes
    THEN Quote(f) \o " must be one of [article, topic, category, event]"
  ELSE IF f \in {"priority", "unread_count"} /\ v < 0
    THEN Quote(f) \o " must be greater than or equal to 0"
  ELSE IF f = "priority" /\ v > 10
    THEN Quote(f) \o " must be less than or equal to 10"
  ELSE IF f = "url" /\ ~IsUri(v)
    THEN Quote(f) \o " must be a valid uri"
  ELSE IF kind = "categories" /\ f = "subcategories"
    THEN SubcategoriesError(v)
  ELSE ""

\* schema.validate(data, { stripUnknown: true, abortEarly: false }):
\* details lists the messages in schema key order, value is the converted
\* payload restricted to the schema's keys
Validate(kind, data, isUpdate) ==
  LET keys == SchemaKeys(kind)
      msg(i) == IF Has(data, keys[i]) THEN FieldError(kind, keys[i], data[keys[i]])
                ELSE IF ~isUpdate /\ keys[i] \in RequiredKeys(kind) THEN Quote(keys[i]) \o " is required"
                ELSE ""
      all == [i \in 1..Len(keys) |-> msg(i)]
      known == Restrict(data, SeqToSet(keys))
  IN [details |-> SelectSeq(all, LAMBDA m : m # ""),
      value |-> [f \in DOMAIN known |-> Convert(kind, f, known[f])]]

validateTopic(data, isUpdate) == Validate("topics", data, isUpdate)

validateCategory(data, isUpdate) == Validate("categories", data, isUpdate)

validateEvent(data, isUpdate) == Validate("events", data, isUpdate)

validateNote(data, isUpdate) == Validate("notes", data, isUpdate)

validateArticle(data, isUpdate) == Validate("articles", data, isUpdate)

ValidateKind(kind, data, isUpdate) ==
  CASE kind = "topics" -> validateTopic(data, isUpdate)
    [] kind = "categories" -> validateCategory(data, isUpdate)
    [] kind = "events" -> validateEvent(data, isUpdate)
    [] kind = "notes" -> validateNote(data, isUpdate)

(***************************************************************************)
(* Document store: the collection operations the adapters call.  The       *)
(* driver's _id field is left out of the documents.                        *)
(***************************************************************************)
\* position of the first document of coll whose id is id, 0 when none
FindIndex(coll, id) ==
  IF \E i \in 1..Len(coll) : coll[i].id = id
    THEN CHOOSE i \in 1..Len(coll) : coll[i].id = id /\ \A j \in 1..(i - 1) : coll[j].id # id
    ELSE 0

\* collection.findOne({ id })
findOne(coll, id) == IF FindIndex(coll, id) = 0 THEN Null ELSE coll[FindIndex(coll, id)]

\* collection.updateOne({ id }, { $set: updateData })
updateOne(coll, id, updateData) ==
  LET i == FindIndex(coll, id)
      new == Merge(coll[i], updateData)
  IN IF i = 0 THEN [coll |-> coll, modifiedCount |-> 0]
     ELSE [coll |-> [coll EXCEPT ![i] = new], modifiedCount |-> IF new = coll[i] THEN 0 ELSE 1]

\* collection.insertOne(doc)
insertOne(coll, doc) == [coll |-> Append(coll, doc), insertedId |-> TRUE]

\* collection.deleteOne({ id })
deleteOne(coll, id) ==
  LET i == FindIndex(coll, id)
  IN IF i = 0 THEN [coll |-> coll, deletedCount |-> 0]
     ELSE [coll |-> SubSeq(coll, 1, i - 1) \o SubSeq(coll, i + 1, Len(coll)), deletedCount |-> 1]

(***************************************************************************)
(* Document Store Adapters (mongodb/models): create, findById, update,     *)
(* delete of each kind.  t is the reading of new Date(), oid the value of  *)
(* new ObjectId().toString().                                              *)
(***************************************************************************)
\* `if (!data.id) data.id = new ObjectId().toString()`
WithObjectId(data, oid) == IF TruthyStr(data, "id") THEN data ELSE Merge(data, [id |-> oid])

\* insertOne and `return result.insertedId ? data : null`
Inserted(coll, doc) ==
  LET result == insertOne(coll, doc)
  IN [coll |-> result.coll, doc |-> IF result.insertedId THEN doc ELSE Null]

TopicCreate(coll, topicData, oid) == Inserted(coll, WithObjectId(topicData, oid))

CategoryCreate(coll, categoryData, oid) ==
  LET withId == WithObjectId(categoryData, oid)
  IN Inserted(coll, IF Has(withId, "subcategories") THEN withId
                    ELSE Merge(withId, [subcategories |-> <<>>]))

NoteCreate(coll, noteData, t, oid) ==
  LET withId == WithObjectId(noteData, oid)
  IN Inserted(coll,
              Merge(withId,
                    [created_at |-> IF Has(withId, "created_at") THEN withId.created_at ELSE t,
                     updated_at |-> IF Has(withId, "updated_at") THEN withId.updated_at ELSE t,
                     tags |-> IF Has(withId, "tags") THEN withId.tags ELSE <<>>,
                     metadata |-> IF Has(withId, "metadata") THEN withId.metadata ELSE <<>>,
                     is_archived |-> TruthyBool(withId, "is_archived")]))

ArticleCreate(coll, articleData, oid) == Inserted(coll, WithObjectId(articleData, oid))

\* the Event adapter: an id when absent, an empty timeline.events when absent
EventCreate(coll, eventData, oid) ==
  LET withId == WithObjectId(eventData, oid)
  IN Inserted(coll, IF Has(withId, "timeline") THEN withId
                    ELSE Merge(withId, [timeline |-> [events |-> <<>>]]))

\* collection.updateOne({ id }, { $addToSet: { [field]: value } })
addToSet(coll, id, field, value) ==
  LET i == FindIndex(coll, id)
      old == IF Has(coll[i], field) THEN coll[i][field] ELSE <<>>
      new == IF value \in SeqToSet(old) THEN old ELSE Append(old, value)
  IN IF i = 0 THEN [coll |-> coll, modifiedCount |-> 0]
     ELSE [coll |-> [coll EXCEPT ![i] = Merge(@, [f \in {field} |-> new])],
           modifiedCount |-> IF new = old /\ Has(coll[i], field) THEN 0 ELSE 1]

\* Topic.addArticle(topicId, articleId)
TopicAddArticle(coll, topicId, articleId) ==
  LET result == addToSet(coll, topicId, "articles_ids", articleId)
  IN [coll |-> result.coll, modified |-> result.modifiedCount > 0]

\* Category.addTopic(categoryId, topicId)
CategoryAddTopic(coll, categoryId, topicId) ==
  LET result == addToSet(coll, categoryId, "topics_ids", topicId)
  IN [coll |-> result.coll, modified |-> result.modifiedCount > 0]

\* collection.updateOne({ id }, { $push: { [field]: value } })
push(coll, id, field, value) ==
  LET i == FindIndex(coll, id)
      old == IF Has(coll[i], field) THEN coll[i][field] ELSE <<>>
  IN IF i = 0 THEN [coll |-> coll, modifiedCount |-> 0]
     ELSE [coll |-> [coll EXCEPT ![i] = Merge(@, [f \in {field} |-> Append(old, value)])],
           modifiedCount |-> 1]

\* collection.updateOne({ id }, { $pull: { [field]: { id: itemId } } })
pull(coll, id, field, itemId) ==
  LET i == FindIndex(coll, id)
      old == IF Has(coll[i], field) THEN coll[i][field] ELSE <<>>
      new == SelectSeq(old, LAMBDA e : e.id # itemId)
  IN IF i = 0 THEN [coll |-> coll, modifiedCount |-> 0]
     ELSE IF new = old THEN [coll |-> coll, modifiedCount |-> 0]
     ELSE [coll |-> [coll EXCEPT ![i] = Merge(@, [f \in {field} |-> new])], modifiedCount |-> 1]

\* collection.updateOne({ id, "subcategories.id": itemId },
\*                      { $set: { "subcategories.$.<key>": value, ... } }):
\* the first document that matches, and its first element of that id
setPositional(coll, id, itemId, updateData) ==
  LET holds(d) == d.id = id /\ Has(d, "subcategories") /\ \E n \in 1..Len(d.subcategories) : d.subcategories[n].id = itemId
      i == CHOOSE x \in 1..Len(coll) : holds(coll[x]) /\ \A y \in 1..(x - 1) : ~holds(coll[y])
      subs == coll[i].subcategories
      n == CHOOSE x \in 1..Len(subs) : subs[x].id = itemId /\ \A y \in 1..(x - 1) : subs[y].id # itemId
      new == [subs EXCEPT ![n] = Merge(@, updateData)]
  IN IF \A x \in 1..Len(coll) : ~holds(coll[x]) THEN [coll |-> coll, modifiedCount |-> 0]
     ELSE [coll |-> [coll EXCEPT ![i] = Merge(@, [subcategories |-> new])],
           modifiedCount |-> IF new = subs THEN 0 ELSE 1]

\* Category.addSubcategory(categoryId, subcategory)
CategoryAddSubcategory(coll, categoryId, subcategory, oid) ==
  LET result == push(coll, categoryId, "subcategories", WithObjectId(subcategory, oid))
  IN [coll |-> result.coll,
      value |-> IF result.modifiedCount > 0 THEN WithObjectId(subcategory, oid) ELSE Null]

\* Category.updateSubcategory(categoryId, subcategoryId, updateData)
CategoryUpdateSubcategory(coll, categoryId, subcategoryId, updateData) ==
  LET result == setPositional(coll, categoryId, subcategoryId, updateData)
  IN [coll |-> result.coll, modified |-> result.modifiedCount > 0]

\* Category.removeSubcategory(categoryId, subcategoryId)
CategoryRemoveSubcategory(coll, categoryId, subcategoryId) ==
  LET result == pull(coll, categoryId, "subcategories", subcategoryId)
  IN [coll |-> result.coll, modified |-> result.modifiedCount > 0]

\* findById(id) of the Topic, Category, Note and Article adapters
FindById(coll, id) == findOne(coll, id)

\* the document is replaced by updateData instead of merged with it
Update_replace(coll, id, updateData) ==
  LET i == FindIndex(coll, id)
  IN IF i = 0 THEN [coll |-> coll, modified |-> FALSE]
     ELSE [coll |-> [coll EXCEPT ![i] = updateData], modified |-> updateData # coll[i]]

\* update(id, updateData) of the Topic, Category and Article adapters:
\* whether a document was modified
Update(coll, id, updateData) ==
  LET result == updateOne(coll, id, updateData)
  IN [coll |-> result.coll, modified |-> result.modifiedCount > 0]

\* a variant that stamps created_at as well
NoteUpdate_restamp(coll, id, updateData, t) ==
  LET result == updateOne(coll, id, Merge(updateData, [updated_at |-> t, created_at |-> t]))
  IN [coll |-> result.coll, modified |-> result.modifiedCount > 0]

\* Note.update: "set updated timestamp", then as the others
NoteUpdate(coll, id, updateData, t) ==
  LET result == updateOne(coll, id, Merge(updateData, [updated_at |-> t]))
  IN [coll |-> result.coll, modified |-> result.modifiedCount > 0]

\* a variant that reports a removal whether or not a document was removed
Delete_blind(coll, id) == [coll |-> deleteOne(coll, id).coll, deleted |-> TRUE]

\* delete(id): whether a document was removed
Delete(coll, id) ==
  LET result == deleteOne(coll, id)
  IN [coll |-> result.coll, deleted |-> result.deletedCount > 0]

EventFindById(coll, id) == findOne(coll, id)

EventUpdate(coll, id, updateData) ==
  LET result == updateOne(coll, id, updateData)
  IN [coll |-> result.coll, modified |-> result.modifiedCount > 0]

EventDelete(coll, id) ==
  LET result == deleteOne(coll, id)
  IN [coll |-> result.coll, deleted |-> result.deletedCount > 0]

\* the registry of adapters: models.<kind>.create and so on
ModelCreate(kind, coll, data, t, oid) ==
  CASE kind = "topics" -> TopicCreate(coll, data, oid)
    [] kind = "categories" -> CategoryCreate(coll, data, oid)
    [] kind = "events" -> EventCreate(coll, data, oid)
    [] kind = "notes" -> NoteCreate(coll, data, t, oid)
    [] kind = "articles" -> ArticleCreate(coll, data, oid)

ModelFindById(kind, coll, id) ==
  IF kind = "events" THEN EventFindById(coll, id) ELSE FindById(coll, id)

ModelUpdate(kind, coll, id, updateData, t) ==
  CASE kind = "events" -> EventUpdate(coll, id, updateData)
    [] kind = "notes" -> NoteUpdate(coll, id, updateData, t)
    [] OTHER -> Update(coll, id, updateData)

ModelDelete(kind, coll, id) ==
  IF kind = "events" THEN EventDelete(coll, id) ELSE Delete(coll, id)

(***************************************************************************)
(* The registry of adapters (mongodb/db.js).  _models is null until        *)
(* connect() has run and after close(); connect() binds each collection    *)
(* name to its adapter.  getModels gives _models itself.                   *)
(***************************************************************************)
Connected == [c \in Collections |-> c]

\* what a call gives: a value, or the exception it raised
Returned(v) == [threw |-> FALSE, value |-> v]

Raised(msg) == [threw |-> TRUE, message |-> msg]

close(reg) == Null

\* getModels as its callers take it to be: an object with the registry under models
getModelsWrapped(reg) ==
  IF reg = Null THEN Raised("Models not initialized. Call connect() first.")
  ELSE Returned([models |-> reg])

getModels(reg) ==
  IF reg = Null THEN Raised("Models not initialized. Call connect() first.")
  ELSE Returned(reg)

(***************************************************************************)
(* Batch Entity Coordinator: POST /entities.                               *)
(* An item of a request is [data, fault]: data is the payload, fault tells *)
(* whether the store call that writes for this item throws.  The state     *)
(* threaded through the items is [store, uuid, created, updated, errors]. *)
(***************************************************************************)
StoreErrorMessage == "connection lost"

\* the list is assigned instead of pushed to
PushTo_assign(resp, kind, x) == [resp EXCEPT ![kind] = <<x>>]

PushTo(resp, kind, x) == [resp EXCEPT ![kind] = Append(@, x)]

\* the default values the coordinator sets before create
CreateDefaults(kind, value, uuid, t) ==
  LET withId == Merge(value, [id |-> IF TruthyStr(value, "id") THEN value.id ELSE uuid])
  IN IF kind = "notes"
       THEN Merge(withId,
                  [created_at |-> IF Has(withId, "created_at") THEN withId.created_at ELSE t,
                   updated_at |-> IF Has(withId, "updated_at") THEN withId.updated_at ELSE t,
                   is_archived |-> TruthyBool(withId, "is_archived")])
       ELSE Merge(withId,
                  [unread_count |-> IF TruthyNum(withId, "unread_count") THEN withId.unread_count ELSE 0,
                   priority |-> IF TruthyNum(withId, "priority") THEN withId.priority ELSE 0])

\* an entry of errors for the item, and on to the next item
Fail(st, kind, data, msg) == [st EXCEPT !.errors = PushTo(@, kind, [data |-> data, error |-> msg])]

\* after update(value.id, value) has answered u
AfterUpdate(kind, st, item, value, u) ==
  IF ~u.modified
    THEN [Fail(st, kind, item.data, "Failed to update " \o Label(kind).low \o " with ID " \o value.id)
            EXCEPT !.store[kind] = u.coll]
    ELSE [st EXCEPT !.store[kind] = u.coll,
                    !.updated = PushTo(@, kind, ModelFindById(kind, u.coll, value.id))]

\* after create(toCreate) has answered c
AfterCreate(kind, st, item, c) ==
  IF c.doc = Null
    THEN [Fail(st, kind, item.data, "Failed to create " \o Label(kind).low)
            EXCEPT !.uuid = @ + 1, !.store[kind] = c.coll]
    ELSE [st EXCEPT !.uuid = @ + 1, !.store[kind] = c.coll, !.created = PushTo(@, kind, c.doc)]

\* an item whose id names no document is inserted under that id
UpdateBranch_upsert(kind, st, item, t, value) ==
  IF ModelFindById(kind, st.store[kind], value.id) = Null
    THEN [AfterCreate(kind, st, item,
                      ModelCreate(kind, st.store[kind], CreateDefaults(kind, value, value.id, t),
                                  t, value.id))
            EXCEPT !.uuid = st.uuid]
  ELSE IF item.fault = "throw" THEN Fail(st, kind, item.data, StoreErrorMessage)
  ELSE AfterUpdate(kind, st, item, value, ModelUpdate(kind, st.store[kind], value.id, value, t))

\* `if (value.id)`: update the existing document
UpdateBranch(kind, st, item, t, value) ==
  IF ModelFindById(kind, st.store[kind], value.id) = Null
    THEN Fail(st, kind, item.data, Label(kind).cap \o " with ID " \o value.id \o " not found")
  ELSE IF item.fault = "throw" THEN Fail(st, kind, item.data, StoreErrorMessage)
  ELSE AfterUpdate(kind, st, item, value, ModelUpdate(kind, st.store[kind], value.id, value, t))

\* `else`: create a new document
CreateBranch(kind, st, item, t, value) ==
  IF item.fault = "throw"
    THEN [Fail(st, kind, item.data, StoreErrorMessage) EXCEPT !.uuid = @ + 1]
    ELSE AfterCreate(kind, st, item,
                     ModelCreate(kind, st.store[kind], CreateDefaults(kind, value, Uuid(st.uuid), t),
                                 t, Uuid(st.uuid)))

\* after validate<Kind>(data, !!data.id) has answered v
AfterValidate(kind, st, item, t, v) ==
  IF v.details # <<>> THEN Fail(st, kind, item.data, "Validation error: " \o v.details[1])
  ELSE IF TruthyStr(v.value, "id") THEN UpdateBranch(kind, st, item, t, v.value)
  ELSE CreateBranch(kind, st, item, t, v.value)

\* the body of the for loop of one kind, for one item
PostItem(kind, st, item, t) ==
  AfterValidate(kind, st, item, t, ValidateKind(kind, item.data, TruthyStr(item.data, "id")))

\* the loop of a kind ends at the first item that fails
RECURSIVE PostItems_stop(_, _, _, _)
PostItems_stop(kind, st, items, t) ==
  IF items = <<>> THEN st
  ELSE LET after == PostItem(kind, st, Head(items), t)
       IN IF Len(after.errors[kind]) > Len(st.errors[kind]) THEN after
          ELSE PostItems_stop(kind, after, Tail(items), t)

RECURSIVE PostItems(_, _, _, _)
PostItems(kind, st, items, t) ==
  IF items = <<>> THEN st
  ELSE PostItems(kind, PostItem(kind, st, Head(items), t), Tail(items), t)

\* a copied section that still reads the list of the section it was copied from
PostKind_copied(kind, st, body, t) ==
  LET from == IF kind = "categories" THEN "topics" ELSE kind
  IN IF Has(body, from) /\ Len(body[from]) > 0
       THEN PostItems(kind,
                      [st EXCEPT !.created = Merge(@, [k \in {kind} |-> <<>>]),
                                 !.updated = Merge(@, [k \in {kind} |-> <<>>]),
                                 !.errors = Merge(@, [k \in {kind} |-> <<>>])],
                      body[from], t)
       ELSE st

\* one `if (req.body.<kind> && ... length > 0)` section
PostKind(kind, st, body, t) ==
  IF Has(body, kind) /\ Len(body[kind]) > 0
    THEN PostItems(kind,
                   [st EXCEPT !.created = Merge(@, [k \in {kind} |-> <<>>]),
                              !.updated = Merge(@, [k \in {kind} |-> <<>>]),
                              !.errors = Merge(@, [k \in {kind} |-> <<>>])],
                   body[kind], t)
    ELSE st

RECURSIVE PostKinds(_, _, _, _)
PostKinds(order, st, body, t) ==
  IF order = <<>> THEN st
  ELSE PostKinds(Tail(order), PostKind(Head(order), st, body, t), body, t)

\* no clean-up
Prune_keep(obj) == obj

\* "clean up empty arrays in response"
Prune(obj) == Restrict(obj, {k \in DOMAIN obj : Len(obj[k]) # 0})

EmptyObj == [k \in {} |-> <<>>]

\* success is computed before the empty lists are removed
PostResponse_early(st) ==
  [store |-> st.store, uuid |-> st.uuid,
   res |-> [op |-> "post", status |-> IF DOMAIN st.errors = {} THEN 200 ELSE 207,
            body |-> [success |-> DOMAIN st.errors = {}, created |-> Prune(st.created),
                      updated |-> Prune(st.updated), errors |-> Prune(st.errors)]]]

\* the clean-up, success and the status of the response
PostResponse(st) ==
  [store |-> st.store, uuid |-> st.uuid,
   res |-> [op |-> "post", status |-> IF DOMAIN Prune(st.errors) = {} THEN 200 ELSE 207,
            body |-> [success |-> DOMAIN Prune(st.errors) = {}, created |-> Prune(st.created),
                      updated |-> Prune(st.updated), errors |-> Prune(st.errors)]]]

\* the state the sections start from
PostStart(st0, uuid0) ==
  [store |-> st0, uuid |-> uuid0, created |-> EmptyObj, updated |-> EmptyObj, errors |-> EmptyObj]

\* the writes of the request are undone when an item has failed
createOrUpdateEntities_rollback(st0, uuid0, body, t) ==
  LET r == PostResponse(PostKinds(KindOrder, PostStart(st0, uuid0), body, t))
  IN [r EXCEPT !.store = IF r.res.body.success THEN @ ELSE st0]

\* the whole handler: the final store and uuid counter, and the response sent
createOrUpdateEntities(st0, uuid0, body, t) ==
  PostResponse(PostKinds(KindOrder, PostStart(st0, uuid0), body, t))

(***************************************************************************)
(* Batch Entity Coordinator: GET /entities.  The value of a query key is   *)
(* the sequence of the strings between the commas.                         *)
(***************************************************************************)
\* parseIds: split(','), trim each, drop the empty ones
parseIds(query, key) ==
  IF ~Has(query, key) THEN <<>>
  ELSE SelectSeq([i \in 1..Len(query[key]) |-> [query[key][i] EXCEPT !.data = Trim(@)]],
                 LAMBDA e : e.data # "")

GetItem(kind, st, item) ==
  LET id == item.data
      fail(msg) == [st EXCEPT !.errors = PushTo(@, kind, [id |-> id, error |-> msg])]
  IN IF item.fault = "throw" THEN fail(StoreErrorMessage)
     ELSE IF ModelFindById(kind, st.store[kind], id) = Null
       THEN fail(Label(kind).cap \o " with ID " \o id \o " not found")
     ELSE [st EXCEPT !.data = PushTo(@, kind, ModelFindById(kind, st.store[kind], id))]

RECURSIVE GetItems(_, _, _)
GetItems(kind, st, items) ==
  IF items = <<>> THEN st ELSE GetItems(kind, GetItem(kind, st, Head(items)), Tail(items))

GetKind(kind, st, query) ==
  LET ids == parseIds(query, IdsKey(kind))
  IN IF Len(ids) > 0
       THEN GetItems(kind,
                     [st EXCEPT !.data = Merge(@, [k \in {kind} |-> <<>>]),
                                !.errors = Merge(@, [k \in {kind} |-> <<>>])],
                     ids)
       ELSE st

RECURSIVE GetKinds(_, _, _)
GetKinds(order, st, query) ==
  IF order = <<>> THEN st ELSE GetKinds(Tail(order), GetKind(Head(order), st, query), query)

getEntities(st0, query) ==
  LET st == GetKinds(KindOrder, [store |-> st0, data |-> EmptyObj, errors |-> EmptyObj], query)
      errors == Prune(st.errors)
      success == DOMAIN errors = {}
  IN [res |-> [op |-> "get", status |-> IF success THEN 200 ELSE 207,
               body |-> [success |-> success, data |-> Prune(st.data), errors |-> errors]]]

(***************************************************************************)
(* Batch Entity Coordinator: DELETE /entities.                             *)
(***************************************************************************)
\* a variant that deletes without looking the id up first
DeleteItem_unchecked(kind, st, item) ==
  LET id == item.data
      d == ModelDelete(kind, st.store[kind], id)
  IN IF item.fault = "throw" \/ ~d.deleted
       THEN [st EXCEPT !.errors =
               PushTo(@, kind, [id |-> id,
                                error |-> "Failed to delete " \o Label(kind).low \o " with ID " \o id])]
     ELSE [st EXCEPT !.store[kind] = d.coll, !.deleted = PushTo(@, kind, id)]

\* a variant that also deletes the notes that refer to the deleted id
DeleteItem_cascade(kind, st, item) ==
  LET id == item.data
      d == ModelDelete(kind, st.store[kind], id)
      fail(msg) == [st EXCEPT !.errors = PushTo(@, kind, [id |-> id, error |-> msg])]
  IN IF ModelFindById(kind, st.store[kind], id) = Null
       THEN fail(Label(kind).cap \o " with ID " \o id \o " not found")
     ELSE IF item.fault = "throw" THEN fail(StoreErrorMessage)
     ELSE [st EXCEPT !.store = [[@ EXCEPT ![kind] = d.coll] EXCEPT
                                  !["notes"] = SelectSeq(@, LAMBDA n : n.reference_id # id)],
                     !.deleted = PushTo(@, kind, id)]

DeleteItem(kind, st, item) ==
  LET id == item.data
      coll == st.store[kind]
      fail(msg) == [st EXCEPT !.errors = PushTo(@, kind, [id |-> id, error |-> msg])]
      d == ModelDelete(kind, coll, id)
  IN IF ModelFindById(kind, coll, id) = Null
       THEN fail(Label(kind).cap \o " with ID " \o id \o " not found")
     ELSE IF item.fault = "throw" THEN fail(StoreErrorMessage)
     ELSE IF ~d.deleted
       THEN fail("Failed to delete " \o Label(kind).low \o " with ID " \o id)
     ELSE [st EXCEPT !.store[kind] = d.coll, !.deleted = PushTo(@, kind, id)]

RECURSIVE DeleteItems(_, _, _)
DeleteItems(kind, st, items) ==
  IF items = <<>> THEN st ELSE DeleteItems(kind, DeleteItem(kind, st, Head(items)), Tail(items))

DeleteKind(kind, st, body) ==
  IF Has(body, IdsKey(kind)) /\ Len(body[IdsKey(kind)]) > 0
    THEN DeleteItems(kind,
                     [st EXCEPT !.deleted = Merge(@, [k \in {kind} |-> <<>>]),
                                !.errors = Merge(@, [k \in {kind} |-> <<>>])],
                     body[IdsKey(kind)])
    ELSE st

RECURSIVE DeleteKinds(_, _, _)
DeleteKinds(order, st, body) ==
  IF order = <<>> THEN st ELSE DeleteKinds(Tail(order), DeleteKind(Head(order), st, body), body)

deleteEntities(st0, body) ==
  LET st == DeleteKinds(KindOrder, [store |-> st0, deleted |-> EmptyObj, errors |-> EmptyObj], body)
      errors == Prune(st.errors)
      success == DOMAIN errors = {}
  IN [store |-> st.store,
      res |-> [op |-> "delete", status |-> IF success THEN 200 ELSE 207,
               body |-> [success |-> success, deleted |-> Prune(st.deleted), errors |-> errors]]]

(***************************************************************************)
(* Listing and search of the adapters.  find() gives the documents in      *)
(* insertion order; sort is stable.  A sort key is a tuple of integers,    *)
(* compared from the left, smaller first.                                  *)
(***************************************************************************)
\* the place of a string of the model in MongoDB's order of strings
Rank(s) == CASE s = "A" -> 1 [] s = "B" -> 2 [] OTHER -> 0

\* a missing number sorts below every number
NumKey(d, f) == IF Has(d, f) THEN d[f] ELSE -1

LexLess(a, b) == \E n \in 1..Len(a) : a[n] < b[n] /\ \A m \in 1..(n - 1) : a[m] = b[m]

\* the documents in the order of their keys, keys[i] the key of docs[i]
SortBy(docs, keys) ==
  LET before(j, i) == LexLess(keys[j], keys[i]) \/ (keys[j] = keys[i] /\ j < i)
      place(i) == 1 + Cardinality({j \in 1..Len(docs) : before(j, i)})
  IN [n \in 1..Len(docs) |-> docs[CHOOSE i \in 1..Len(docs) : place(i) = n]]

\* .skip(skip).limit(limit); a limit of 0 is no limit
Page(docs, skip, limit) ==
  LET last == IF limit = 0 \/ skip + limit > Len(docs) THEN Len(docs) ELSE skip + limit
  IN SubSeq(docs, skip + 1, last)

\* sort({ priority: -1, name: 1 })
ByPriorityThenName(docs) ==
  SortBy(docs, [i \in 1..Len(docs) |-> <<0 - NumKey(docs[i], "priority"), Rank(docs[i].name)>>])

\* sort({ name: 1 })
ByName(docs) == SortBy(docs, [i \in 1..Len(docs) |-> <<Rank(docs[i].name)>>])

\* sort({ priority: -1 })
ByPriority(docs) == SortBy(docs, [i \in 1..Len(docs) |-> <<0 - NumKey(docs[i], "priority")>>])

\* sort({ created_at: -1 })
ByNewest(docs) == SortBy(docs, [i \in 1..Len(docs) |-> <<0 - NumKey(docs[i], "created_at")>>])

TopicGetAll(coll, limit, skip) == Page(ByPriorityThenName(coll), skip, limit)

CategoryFindAll(coll, limit, skip) == Page(ByName(coll), skip, limit)

CategoryGetAll(coll, limit, skip) == CategoryFindAll(coll, limit, skip)

EventGetAll(coll, limit, skip) == Page(ByPriority(coll), skip, limit)

NotArchived(coll) == SelectSeq(coll, LAMBDA d : Has(d, "is_archived") /\ d.is_archived = FALSE)

NoteGetRecent(coll, limit) == Page(ByNewest(NotArchived(coll)), 0, limit)

\* the letters of the model in lower case
Lower(s) == CASE s = "A" -> "a" [] s = "B" -> "b" [] OTHER -> s

\* { $regex: keyword, $options: 'i' } on a field: the texts of the model
\* are single letters, and one contains the other when they are the same
\* letter
RegexI(d, f, keyword) == Has(d, f) /\ Lower(d[f]) = Lower(keyword)

\* { keywords: keyword }: the array has the keyword as an element
HasKeyword(d, keyword) == Has(d, "keywords") /\ keyword \in SeqToSet(d.keywords)

TopicSearch(coll, keyword, limit, skip) ==
  Page(ByPriority(SelectSeq(coll, LAMBDA d : \/ RegexI(d, "name", keyword)
                                             \/ RegexI(d, "description", keyword)
                                             \/ HasKeyword(d, keyword))),
       skip, limit)

CategorySearch(coll, keyword, limit, skip) ==
  Page(ByName(SelectSeq(coll, LAMBDA d :
                \/ RegexI(d, "name", keyword)
                \/ RegexI(d, "description", keyword)
                \/ HasKeyword(d, keyword)
                \/ \E n \in 1..Len(d.subcategories) : RegexI(d.subcategories[n], "name", keyword))),
       skip, limit)

EventSearch(coll, keyword, limit, skip) ==
  Page(ByPriority(SelectSeq(coll, LAMBDA d : RegexI(d, "description", keyword))), skip, limit)

NoteSearch(coll, keyword, limit, skip) ==
  Page(ByNewest(SelectSeq(NotArchived(coll), LAMBDA d : RegexI(d, "content", keyword))), skip, limit)

ModelSearch(kind, coll, keyword, limit, skip) ==
  CASE kind = "topics" -> TopicSearch(coll, keyword, limit, skip)
    [] kind = "categories" -> CategorySearch(coll, keyword, limit, skip)
    [] kind = "events" -> EventSearch(coll, keyword, limit, skip)
    [] kind = "notes" -> NoteSearch(coll, keyword, limit, skip)

(***************************************************************************)
(* Listing handlers (getAllTopics, getAllCategories, getAllEvents,         *)
(* getAllNotes) and searchEntities.  got is what db.getModels() gives the  *)
(* handler, fault tells whether the adapter call of the request throws.    *)
(* A result is the response and the calls made.  An error passed to next   *)
(* is answered by the error handler of server.js.                          *)
(***************************************************************************)
DefaultLimit == 20

DefaultSearchLimit == 10

\* parseInt of the query values of the model
ParseInt(s) ==
  CASE s = "0" -> [nan |-> FALSE, n |-> 0]
    [] s = "1" -> [nan |-> FALSE, n |-> 1]
    [] s = "2" -> [nan |-> FALSE, n |-> 2]
    [] OTHER -> [nan |-> TRUE, n |-> 0]

\* parseInt(req.query[key]) || dflt
IntOr(query, key, dflt) ==
  IF ~Has(query, key) \/ ParseInt(query[key]).nan \/ ParseInt(query[key]).n = 0
    THEN dflt
    ELSE ParseInt(query[key]).n

\* const { models } = <what getModels gave>
ModelsOf(got) == IF Has(got.value, "models") THEN got.value.models ELSE Null

\* the error handler: res.status(err.status || 500).json({ error: { message } })
ErrorResponse(op, msg) == [op |-> op, status |-> 500, body |-> [error |-> [message |-> msg]]]

UndefinedMessage(kind) == "Cannot read properties of undefined (reading '" \o kind \o "')"

\* the fallback datasets, each document with its id, name, unread_count and priority
getSampleCategories ==
  <<[id |-> "cat1", name |-> "Technology", unread_count |-> 12, priority |-> 2],
    [id |-> "cat2", name |-> "Business", unread_count |-> 8, priority |-> 1],
    [id |-> "cat3", name |-> "Politics", unread_count |-> 15, priority |-> 3]>>

getSampleTopics ==
  <<[id |-> "topic1", name |-> "Machine Learning", unread_count |-> 3],
    [id |-> "topic2", name |-> "Natural Language Processing", unread_count |-> 2],
    [id |-> "topic3", name |-> "Data Privacy", unread_count |-> 4],
    [id |-> "topic4", name |-> "Cloud Computing", unread_count |-> 1],
    [id |-> "topic5", name |-> "Stock Market", unread_count |-> 2],
    [id |-> "topic6", name |-> "Startups", unread_count |-> 3],
    [id |-> "topic8", name |-> "Diplomacy", unread_count |-> 3],
    [id |-> "topic9", name |-> "Trade Agreements", unread_count |-> 3]>>

\* res.status(200).json({ <kind>: docs, count, pagination: { limit, skip } })
Listing(op, kind, docs, query, made) ==
  [res |-> [op |-> op, status |-> 200,
            body |-> Merge([k \in {kind} |-> docs],
                           [count |-> Len(docs),
                            pagination |-> [limit |-> IntOr(query, "limit", DefaultLimit),
                                            skip |-> IntOr(query, "skip", 0)]])],
   calls |-> made]

Failing(op, msg, made) == [res |-> ErrorResponse(op, msg), calls |-> made]

getAllTopics(got, coll, query, fault) ==
  IF got.threw \/ ModelsOf(got) = Null \/ ~Has(ModelsOf(got), "topics")
    THEN Listing("getAllTopics", "topics", getSampleTopics, query, <<"getModels">>)
  ELSE IF fault = "throw"
    THEN Failing("getAllTopics", StoreErrorMessage, <<"getModels", "topics.getAll">>)
  ELSE Listing("getAllTopics", "topics",
               TopicGetAll(coll, IntOr(query, "limit", DefaultLimit), IntOr(query, "skip", 0)),
               query, <<"getModels", "topics.getAll">>)

getAllCategories(got, coll, query, fault) ==
  IF got.threw \/ ModelsOf(got) = Null \/ ~Has(ModelsOf(got), "categories")
    THEN Listing("getAllCategories", "categories", getSampleCategories, query, <<"getModels">>)
  ELSE IF fault = "throw"
    THEN Listing("getAllCategories", "categories", getSampleCategories, query,
                 <<"getModels", "categories.getAll">>)
  ELSE Listing("getAllCategories", "categories",
               CategoryGetAll(coll, IntOr(query, "limit", DefaultLimit), IntOr(query, "skip", 0)),
               query, <<"getModels", "categories.getAll">>)

getAllEvents(got, coll, query, fault) ==
  IF got.threw THEN Failing("getAllEvents", got.message, <<"getModels">>)
  ELSE IF ModelsOf(got) = Null
    THEN Failing("getAllEvents", UndefinedMessage("events"), <<"getModels">>)
  ELSE IF fault = "throw"
    THEN Failing("getAllEvents", StoreErrorMessage, <<"getModels", "events.getAll">>)
  ELSE Listing("getAllEvents", "events",
               EventGetAll(coll, IntOr(query, "limit", DefaultLimit), IntOr(query, "skip", 0)),
               query, <<"getModels", "events.getAll">>)

getAllNotes(got, coll, query, fault) ==
  IF got.threw THEN Failing("getAllNotes", got.message, <<"getModels">>)
  ELSE IF ModelsOf(got) = Null
    THEN Failing("getAllNotes", UndefinedMessage("notes"), <<"getModels">>)
  ELSE IF fault = "throw"
    THEN Failing("getAllNotes", StoreErrorMessage, <<"getModels", "notes.getRecent">>)
  ELSE Listing("getAllNotes", "notes", NoteGetRecent(coll, IntOr(query, "limit", DefaultLimit)),
               query, <<"getModels", "notes.getRecent">>)

\* the kind names of the types value that the handler compares: trimmed, in lower case
KindName(s) == CASE Trim(s) = "Notes" -> "notes" [] OTHER -> Trim(s)

searchTypes(query) ==
  IF Has(query, "types") /\ query.types # <<>>
    THEN {KindName(query.types[n]) : n \in 1..Len(query.types)}
    ELSE Kinds

\* one `if (searchTypes.includes(kind))` block; acc is [response, calls, error]
SearchKind(kind, acc, models, st, query, fault) ==
  IF acc.error # "" \/ kind \notin searchTypes(query) THEN acc
  ELSE IF models = Null THEN [acc EXCEPT !.error = UndefinedMessage(kind)]
  ELSE IF fault = "throw"
    THEN [acc EXCEPT !.error = StoreErrorMessage, !.calls = Append(@, kind \o ".search")]
  ELSE [acc EXCEPT !.calls = Append(@, kind \o ".search"),
                   !.response = Merge(@, [k \in {kind} |->
                       ModelSearch(kind, st[kind], query.q,
                                   IntOr(query, "limit", DefaultSearchLimit), 0)])]

RECURSIVE SearchKinds(_, _, _, _, _, _)
SearchKinds(order, acc, models, st, query, fault) ==
  IF order = <<>> THEN acc
  ELSE SearchKinds(Tail(order), SearchKind(Head(order), acc, models, st, query, fault),
                   models, st, query, fault)

SearchResult(acc) ==
  IF acc.error # "" THEN Failing("searchEntities", acc.error, acc.calls)
  ELSE [res |-> [op |-> "searchEntities", status |-> 200, body |-> acc.response], calls |-> acc.calls]

\* a variant that asks for the registry before it looks at q
searchEntities_eager(got, st, query, fault) ==
  IF got.threw THEN Failing("searchEntities", got.message, <<"getModels">>)
  ELSE IF ~TruthyStr(query, "q")
    THEN [res |-> [op |-> "searchEntities", status |-> 400,
                   body |-> [error |-> [message |-> "Search query is required"]]],
          calls |-> <<"getModels">>]
  ELSE SearchResult(SearchKinds(KindOrder,
                                [response |-> [query |-> query.q], calls |-> <<"getModels">>, error |-> ""],
                                ModelsOf(got), st, query, fault))

searchEntities(got, st, query, fault) ==
  IF ~TruthyStr(query, "q")
    THEN [res |-> [op |-> "searchEntities", status |-> 400,
                   body |-> [error |-> [message |-> "Search query is required"]]],
          calls |-> <<>>]
  ELSE IF got.threw THEN Failing("searchEntities", got.message, <<"getModels">>)
  ELSE SearchResult(SearchKinds(KindOrder,
                                [response |-> [query |-> query.q], calls |-> <<"getModels">>, error |-> ""],
                                ModelsOf(got), st, query, fault))

(***************************************************************************)
(* Article Subsystem (backend/controllers/article.controller.js).          *)
(***************************************************************************)
createArticle(coll, uuid, body, t) ==
  LET v == validateArticle(body, FALSE)
      withId == IF TruthyStr(v.value, "id") THEN v.value ELSE Merge(v.value, [id |-> Uuid(uuid)])
      articleData ==
        Merge(withId,
              [published_date |-> IF Has(withId, "published_date") THEN withId.published_date ELSE t,
               unread_count |-> IF TruthyNum(withId, "unread_count") THEN withId.unread_count ELSE 1,
               priority |-> IF TruthyNum(withId, "priority") THEN withId.priority ELSE 0])
      c == ModelCreate("articles", coll, articleData, t, Uuid(uuid))
  IN IF v.details # <<>>
       THEN [coll |-> coll, uuid |-> uuid,
             res |-> [op |-> "createArticle", status |-> 400,
                      body |-> [error |-> [message |-> "Invalid article data", details |-> v.details]]]]
       ELSE [coll |-> c.coll, uuid |-> IF TruthyStr(v.value, "id") THEN uuid ELSE uuid + 1,
             res |-> [op |-> "createArticle", status |-> 201, body |-> c.doc]]

updateArticle(coll, id, body) ==
  LET v == validateArticle(body, TRUE)
      u == ModelUpdate("articles", coll, id, v.value, 0)
  IN IF ModelFindById("articles", coll, id) = Null
       THEN [coll |-> coll,
             res |-> [op |-> "updateArticle", status |-> 404,
                      body |-> [error |-> [message |-> "Article with ID " \o id \o " not found"]]]]
     ELSE IF v.details # <<>>
       THEN [coll |-> coll,
             res |-> [op |-> "updateArticle", status |-> 400,
                      body |-> [error |-> [message |-> "Invalid article data", details |-> v.details]]]]
     ELSE IF ~u.modified
       THEN [coll |-> u.coll,
             res |-> [op |-> "updateArticle", status |-> 500,
                      body |-> [error |-> [message |-> "Failed to update article"]]]]
     ELSE [coll |-> u.coll,
           res |-> [op |-> "updateArticle", status |-> 200, body |-> ModelFindById("articles", u.coll, id)]]

deleteArticle(coll, id) ==
  LET d == ModelDelete("articles", coll, id)
  IN IF ModelFindById("articles", coll, id) = Null
       THEN [coll |-> coll,
             res |-> [op |-> "deleteArticle", status |-> 404,
                      body |-> [error |-> [message |-> "Article with ID " \o id \o " not found"]]]]
     ELSE IF ~d.deleted
       THEN [coll |-> d.coll,
             res |-> [op |-> "deleteArticle", status |-> 500,
                      body |-> [error |-> [message |-> "Failed to delete article"]]]]
     ELSE [coll |-> d.coll, res |-> [op |-> "deleteArticle", status |-> 204, body |-> Null]]

\* sort({ published_date: -1 })
ByPublished(docs) == SortBy(docs, [i \in 1..Len(docs) |-> <<0 - NumKey(docs[i], "published_date")>>])

\* sort({ priority: -1, published_date: -1 })
ByPriorityThenPublished(docs) ==
  SortBy(docs, [i \in 1..Len(docs) |->
                  <<0 - NumKey(docs[i], "priority"), 0 - NumKey(docs[i], "published_date")>>])

ArticleSearch(coll, keyword, limit, skip) ==
  Page(ByPublished(SelectSeq(coll, LAMBDA d : \/ RegexI(d, "title", keyword)
                                              \/ RegexI(d, "summary", keyword)
                                              \/ HasKeyword(d, keyword))),
       skip, limit)

ArticleGetPriorityArticles(coll, limit) == Page(ByPriorityThenPublished(coll), 0, limit)

ArticleGetUnreadArticles(coll, limit) ==
  Page(ByPriorityThenPublished(SelectSeq(coll, LAMBDA d : NumKey(d, "unread_count") > 0)), 0, limit)

getArticleById(coll, id) ==
  IF ModelFindById("articles", coll, id) = Null
    THEN [op |-> "getArticleById", status |-> 404,
          body |-> [error |-> [message |-> "Article with ID " \o id \o " not found"]]]
    ELSE [op |-> "getArticleById", status |-> 200, body |-> ModelFindById("articles", coll, id)]

searchArticles(coll, query) ==
  IF ~TruthyStr(query, "q")
    THEN [op |-> "searchArticles", status |-> 400,
          body |-> [error |-> [message |-> "Search query is required"]]]
    ELSE [op |-> "searchArticles", status |-> 200,
          body |-> [articles |-> ArticleSearch(coll, query.q, IntOr(query, "limit", DefaultLimit),
                                               IntOr(query, "skip", 0)),
                    query |-> query.q]]

getPriorityArticles(coll, query) ==
  [op |-> "getPriorityArticles", status |-> 200,
   body |-> [articles |-> ArticleGetPriorityArticles(coll, IntOr(query, "limit", DefaultSearchLimit))]]

getUnreadArticles(coll, query) ==
  [op |-> "getUnreadArticles", status |-> 200,
   body |-> [articles |-> ArticleGetUnreadArticles(coll, IntOr(query, "limit", DefaultLimit))]]

\* the segments of a route pattern that are parameters: they match any segment
RouteParams == {":id", ":topicId", ":categoryId", ":eventId"}

\* the article router, in the order the routes are registered
ArticleRoutes ==
  <<[method |-> "GET", path |-> <<>>, handler |-> "getAllArticles"],
    [method |-> "GET", path |-> <<":id">>, handler |-> "getArticleById"],
    [method |-> "POST", path |-> <<>>, handler |-> "createArticle"],
    [method |-> "PUT", path |-> <<":id">>, handler |-> "updateArticle"],
    [method |-> "DELETE", path |-> <<":id">>, handler |-> "deleteArticle"],
    [method |-> "GET", path |-> <<"search">>, handler |-> "searchArticles"],
    [method |-> "GET", path |-> <<"topic", ":topicId">>, handler |-> "getArticlesByTopic"],
    [method |-> "GET", path |-> <<"category", ":categoryId">>, handler |-> "getArticlesByCategory"],
    [method |-> "GET", path |-> <<"event", ":eventId">>, handler |-> "getArticlesByEvent"],
    [method |-> "GET", path |-> <<"priority">>, handler |-> "getPriorityArticles"],
    [method |-> "GET", path |-> <<"unread">>, handler |-> "getUnreadArticles"]>>

\* a route takes a request of its method whose path has the pattern's
\* segments, a parameter standing for any segment
MatchesRoute(r, method, path) ==
  /\ r.method = method
  /\ Len(r.path) = Len(path)
  /\ \A i \in 1..Len(path) : r.path[i] \in RouteParams \/ r.path[i] = path[i]

\* the handler of the first registered route that matches; the handlers end
\* the response and never call next()
ArticleDispatch(method, path) ==
  LET hits == SelectSeq(ArticleRoutes, LAMBDA r : MatchesRoute(r, method, path))
  IN IF hits = <<>> THEN "none" ELSE hits[1].handler

\* the answer of the handler a GET of one path segment is dispatched to
GetArticlesAnswer(handler, coll, segment, query) ==
  CASE handler = "getArticleById" -> getArticleById(coll, segment)
    [] handler = "searchArticles" -> searchArticles(coll, query)
    [] handler = "getPriorityArticles" -> getPriorityArticles(coll, query)
    [] handler = "getUnreadArticles" -> getUnreadArticles(coll, query)

(***************************************************************************)
(* Requests a client can send.  A request is built from at most MaxItems  *)
(* slots; a slot names a kind and carries one item, or marks the kind's    *)
(* key as present with no item of its own.                                 *)
(***************************************************************************)
StoredIds(kind) == {store[kind][i].id : i \in 1..Len(store[kind])}

\* ids a client can name: the stored ones and one that is never stored
KnownIds(kind) == StoredIds(kind) \cup ClientIds

\* the smallest payload that validates for a create
ReqPayload(kind) ==
  CASE kind \in {"topics", "categories"} -> [name |-> "A"]
    [] kind = "events" -> [date |-> 1, description |-> "A"]
    [] kind = "notes" -> [content |-> "A", reference_type |-> "topic", reference_id |-> "x1"]
    [] kind = "articles" -> [title |-> "A", url |-> "http://a"]

\* the payloads of the items of a kind: a create, an item that fails
\* validation, and a partial update of each id the client can name
PostPayloads(kind) ==
  {ReqPayload(kind), [invalid |-> "x"]} \cup {[id |-> i, priority |-> 3] : i \in KnownIds(kind)}

\* payloads the validator converts or rejects on the id alone
ConvertedPayloads(kind) ==
  {Merge(ReqPayload(kind), [id |-> ""])}
  \cup {[id |-> Pad(j), priority |-> 3, extra |-> "x"] : j \in StoredIds(kind)}

KindIndex(kind) == CHOOSE i \in 1..Len(KindOrder) : KindOrder[i] = kind

Slot(kind, d, f) ==
  [kind |-> kind, ord |-> KindIndex(kind), empty |-> FALSE, item |-> [data |-> d, fault |-> f]]

EmptySlots(d) ==
  {[kind |-> k, ord |-> KindIndex(k), empty |-> TRUE, item |-> [data |-> d, fault |-> "none"]] : k \in Kinds}

\* the payloads for which a throwing store call is reached
FaultyPayloads(kind) == {ReqPayload(kind)} \cup {[id |-> i, priority |-> 3] : i \in StoredIds(kind)}

PostSlots ==
  EmptySlots([invalid |-> "x"])
  \cup UNION {{Slot(k, d, "none") : d \in PostPayloads(k)} : k \in Kinds}
  \cup UNION {{Slot(k, d, "throw") : d \in FaultyPayloads(k)} : k \in Kinds}
  \cup {Slot("topics", d, "none") : d \in ConvertedPayloads("topics")}

\* the strings between the commas of a GET /entities query value
GetSlots ==
  EmptySlots("")
  \cup UNION {{Slot(k, d, "none") : d \in KnownIds(k)} : k \in Kinds}
  \cup UNION {{Slot(k, d, "throw") : d \in StoredIds(k)} : k \in Kinds}
  \cup {Slot("topics", d, "none") : d \in {""} \cup {Pad(j) : j \in StoredIds("topics")}}

DeleteSlots ==
  EmptySlots("")
  \cup UNION {{Slot(k, d, "none") : d \in KnownIds(k)} : k \in Kinds}
  \cup UNION {{Slot(k, d, "throw") : d \in StoredIds(k)} : k \in Kinds}

\* the generated ids given out so far
IssuedIds == {Uuid(n) : n \in 1..(nextUuid - 1)}

\* creates of documents that refer to an id given out before
RefSlots ==
  {Slot("notes", [content |-> "A", reference_type |-> "topic", reference_id |-> i], "none")
     : i \in IssuedIds}
  \cup {Slot("topics", [name |-> "A", categories_ids |-> <<i>>], "none") : i \in IssuedIds}

\* DELETE /entities naming any id a client has seen, stored or not any more
DeleteSeenSlots ==
  EmptySlots("")
  \cup UNION {{Slot(k, d, "none") : d \in IssuedIds \cup ClientIds} : k \in Kinds}
  \cup UNION {{Slot(k, d, "throw") : d \in StoredIds(k)} : k \in Kinds}

\* creates whose documents differ in name, priority and archival
PageSlots ==
  {Slot(k, d, "none") : k \in {"topics", "categories"},
                        d \in {[name |-> "A"], [name |-> "B", priority |-> 3]}}
  \cup {Slot("events", d, "none") : d \in {ReqPayload("events"),
                                           Merge(ReqPayload("events"), [priority |-> 3])}}
  \cup {Slot("notes", d, "none") : d \in {ReqPayload("notes"),
                                          Merge(ReqPayload("notes"), [is_archived |-> TRUE])}}

\* a query with or without the key
Opt(key, values) == {EmptyObj} \cup {[k \in {key} |-> v] : v \in values}

\* the queries of GET /entities/{kind}
ListQueries ==
  {Merge(l, s) : l \in Opt("limit", {"0", "1", "2", "x"}), s \in Opt("skip", {"1", "x"})}

\* the queries of GET /entities/search; types is the sequence of the
\* strings between its commas
SearchQueries ==
  {Merge(Merge(q, t), l) : q \in Opt("q", {"", "a", "B"}),
                           t \in Opt("types", {<<"topics">>, <<"Notes", "other">>}),
                           l \in Opt("limit", {"1"})}

Faults == {"none", "throw"}

\* the slots of a request are listed kind by kind; a kind is marked as
\* present without items only when no slot gives it an item
Follows(a, b) == a.ord < b.ord \/ (a.ord = b.ord /\ ~a.empty /\ ~b.empty)

Canonical(q) == \A i \in 1..(Len(q) - 1) : Follows(q[i], q[i + 1])

\* the requests of at most n slots
SlotSeqs(slots, n) == UNION {[1..m -> slots] : m \in 0..n}

ItemsOf(q, kind) ==
  LET own == SelectSeq(q, LAMBDA s : s.kind = kind /\ ~s.empty)
  IN [i \in 1..Len(own) |-> own[i].item]

\* the body of POST /entities built from the slots q
PostBody(q) == [k \in {q[i].kind : i \in 1..Len(q)} |-> ItemsOf(q, k)]

\* the query of GET /entities and the body of DELETE /entities built from q
IdsBody(q) ==
  [key \in {IdsKey(q[i].kind) : i \in 1..Len(q)} |->
     ItemsOf(q, CHOOSE k \in Kinds : IdsKey(k) = key)]

\* the items of a POST body that reach the create branch when they validate
NumCreates(body) ==
  LET n(k) == Len(SelectSeq(body[k], LAMBDA e : ~TruthyStr(e.data, "id")))
      RECURSIVE Sum(_)
      Sum(ks) == IF ks = {} THEN 0 ELSE LET k == CHOOSE x \in ks : TRUE IN n(k) + Sum(ks \ {k})
  IN Sum(DOMAIN body)

ArticleBodies ==
  {ReqPayload("articles"), [invalid |-> "x"], [title |-> "B"],
   Merge(ReqPayload("articles"), [unread_count |-> 0, priority |-> 0]),
   Merge(ReqPayload("articles"), [unread_count |-> 2, priority |-> 3])}
  \cup {Merge(ReqPayload("articles"), [id |-> i]) : i \in KnownIds("articles")}

\* single items: a create of each kind, and updates of the stored documents
\* that change a field, change nothing, or fail validation
TwiceSlots ==
  UNION {{Slot(k, ReqPayload(k), "none")} : k \in Kinds}
  \cup UNION {{Slot(k, [id |-> i, priority |-> p], "none") : i \in StoredIds(k), p \in {0, 3, 11}}
              : k \in Kinds}
  \cup {Slot("topics", [id |-> Pad(j), name |-> "B", extra |-> "x"], "none") : j \in StoredIds("topics")}

(***************************************************************************)
(* The state machine.  req and res are the request being answered and its  *)
(* response, pre the store when the request arrived; a client reads the    *)
(* response before the next request is served.                             *)
(***************************************************************************)
None == [op |-> "none"]

\* the calls that can be in flight, and a call slot that holds none
Tasks == 1..MaxTasks

NoTask == [pc |-> "idle"]

\* db.js after the connect() of startServer: _db is the database of the
\* first client, one client was created and the models initialized once
Opened == [db |-> 1, clients |-> 1, inits |-> 1]

Init ==
  /\ store = [c \in Collections |-> <<>>]
  /\ nextUuid = 1
  /\ now = 0
  /\ req = None
  /\ res = None
  /\ pre = [c \in Collections |-> <<>>]
  /\ registry = Connected
  /\ calls = <<>>
  /\ handle = Opened
  /\ tasks = [p \in Tasks |-> NoTask]

Idle == res.op = "none"

\* POST /entities with a body of at most n of the given slots
PostWith(slots, n) ==
  /\ Idle
  /\ \E q \in SlotSeqs(slots, n) :
    LET body == PostBody(q)
        r == createOrUpdateEntities(store, nextUuid, body, now)
    IN /\ Canonical(q)
       /\ nextUuid + NumCreates(body) <= MaxUuid + 1
       /\ store' = r.store
       /\ nextUuid' = r.uuid
       /\ req' = [op |-> "post", body |-> body]
       /\ res' = r.res
       /\ pre' = store
       /\ UNCHANGED <<now, registry, calls, handle, tasks>>

\* GET /entities with a query of at most n of the given slots
GetWith(slots, n) ==
  /\ Idle
  /\ \E q \in SlotSeqs(slots, n) :
    LET query == IdsBody(q)
        r == getEntities(store, query)
    IN /\ Canonical(q)
       /\ req' = [op |-> "get", body |-> query]
       /\ res' = r.res
       /\ pre' = store
       /\ UNCHANGED <<store, nextUuid, now, registry, calls, handle, tasks>>

\* DELETE /entities with a body of at most n of the given slots
DeleteWith(slots, n) ==
  /\ Idle
  /\ \E q \in SlotSeqs(slots, n) :
    LET body == IdsBody(q)
        r == deleteEntities(store, body)
    IN /\ Canonical(q)
       /\ store' = r.store
       /\ req' = [op |-> "delete", body |-> body]
       /\ res' = r.res
       /\ pre' = store
       /\ UNCHANGED <<nextUuid, now, registry, calls, handle, tasks>>

PostEntities == PostWith(PostSlots, MaxItems)

GetEntities == GetWith(GetSlots, MaxItems)

DeleteEntities == DeleteWith(DeleteSlots, MaxItems)

\* the client reads the response
Receive ==
  /\ ~Idle
  /\ req' = None
  /\ res' = None
  /\ pre' = store
  /\ calls' = <<>>
  /\ UNCHANGED <<store, nextUuid, now, registry, handle, tasks>>

Next ==
  \/ PostEntities
  \/ GetEntities
  \/ DeleteEntities
  \/ Receive

Spec == Init /\ [][Next]_vars

(***************************************************************************)
(* The article routes next to the batch routes, one item a request.        *)
(***************************************************************************)
CreateArticle ==
  /\ Idle
  /\ \E body \in ArticleBodies :
    LET r == createArticle(store["articles"], nextUuid, body, now)
    IN /\ Len(store["articles"]) < MaxArticles
       /\ TruthyStr(body, "id") \/ nextUuid <= MaxUuid
       /\ store' = [store EXCEPT !["articles"] = r.coll]
       /\ nextUuid' = r.uuid
       /\ req' = [op |-> "createArticle", body |-> body]
       /\ res' = r.res
       /\ pre' = store
       /\ UNCHANGED <<now, registry, calls, handle, tasks>>

UpdateArticle ==
  /\ Idle
  /\ \E id \in KnownIds("articles"), body \in ArticleBodies :
    LET r == updateArticle(store["articles"], id, body)
    IN /\ store' = [store EXCEPT !["articles"] = r.coll]
       /\ req' = [op |-> "updateArticle", id |-> id, body |-> body]
       /\ res' = r.res
       /\ pre' = store
       /\ UNCHANGED <<nextUuid, now, registry, calls, handle, tasks>>

DeleteArticle ==
  /\ Idle
  /\ \E id \in KnownIds("articles") :
    LET r == deleteArticle(store["articles"], id)
    IN /\ store' = [store EXCEPT !["articles"] = r.coll]
       /\ req' = [op |-> "deleteArticle", id |-> id]
       /\ res' = r.res
       /\ pre' = store
       /\ UNCHANGED <<nextUuid, now, registry, calls, handle, tasks>>

\* GET /api/articles/<segment>: the literal paths of the router, and the ids
FixedArticlePaths == {"search", "priority", "unread"}

GetArticles ==
  /\ Idle
  /\ \E segment \in FixedArticlePaths \cup KnownIds("articles") :
     \E query \in {EmptyObj, [q |-> "A"], [limit |-> "1"]} :
       /\ req' = [op |-> "GET /api/articles", path |-> <<segment>>, query |-> query]
       /\ res' = GetArticlesAnswer(ArticleDispatch("GET", <<segment>>), store["articles"],
                                   segment, query)
       /\ pre' = store
       /\ UNCHANGED <<store, nextUuid, now, registry, calls, handle, tasks>>

PostEntity == PostWith(PostSlots, 1)

DeleteEntity == DeleteWith(DeleteSlots, 1)

NextArticles ==
  \/ CreateArticle
  \/ GetArticles
  \/ UpdateArticle
  \/ DeleteArticle
  \/ PostEntity
  \/ DeleteEntity
  \/ Receive

SpecArticles == Init /\ [][NextArticles]_vars

(***************************************************************************)
(* The same POST /entities request sent twice in succession, the clock     *)
(* advancing at any moment.  While the second request is answered, pre     *)
(* stays the store from before the first.                                  *)
(***************************************************************************)
PostOnce == PostWith(TwiceSlots, 1)

PostAgain ==
  /\ res.op = "post"
  /\ ~Has(req, "again")
  /\ LET r == createOrUpdateEntities(store, nextUuid, req.body, now)
     IN /\ nextUuid + NumCreates(req.body) <= MaxUuid + 1
        /\ store' = r.store
        /\ nextUuid' = r.uuid
        /\ req' = [op |-> "post", body |-> req.body, again |-> TRUE]
        /\ res' = r.res
        /\ UNCHANGED <<pre, now, registry, calls, handle, tasks>>

\* time passes
Tick ==
  /\ now < MaxClock
  /\ now' = now + 1
  /\ UNCHANGED <<store, nextUuid, req, res, pre, registry, calls, handle, tasks>>

NextTwice ==
  \/ PostOnce
  \/ PostAgain
  \/ Receive
  \/ Tick

SpecTwice == Init /\ [][NextTwice]_vars

(***************************************************************************)
(* DELETE /entities requests that name ids deleted before, next to POST    *)
(* /entities requests of one item.                                         *)
(***************************************************************************)
DeleteSeen == DeleteWith(DeleteSeenSlots, MaxItems)

PostReferring == PostWith(RefSlots, 1)

NextDelete ==
  \/ PostEntity
  \/ PostReferring
  \/ DeleteSeen
  \/ Receive

SpecDelete == Init /\ [][NextDelete]_vars

(***************************************************************************)
(* The listing and search routes.  PostListed fills the collections.  In   *)
(* SpecList the handlers get what getModels of mongodb/db.js gives and the *)
(* registry is closed at shutdown; in SpecPages they get the object their  *)
(* destructuring expects.                                                  *)
(***************************************************************************)
\* the routes of the entity router in registration order, a path as its segments
Routes ==
  <<[method |-> "POST", path |-> <<>>, handler |-> "createOrUpdateEntities"],
    [method |-> "GET", path |-> <<>>, handler |-> "getEntities"],
    [method |-> "DELETE", path |-> <<>>, handler |-> "deleteEntities"],
    [method |-> "GET", path |-> <<"topics">>, handler |-> "getAllTopics"],
    [method |-> "GET", path |-> <<"categories">>, handler |-> "getAllCategories"],
    [method |-> "GET", path |-> <<"events">>, handler |-> "getAllEvents"],
    [method |-> "GET", path |-> <<"notes">>, handler |-> "getAllNotes"],
    [method |-> "GET", path |-> <<"search">>, handler |-> "searchEntities"]>>

\* the handler of the first route that matches, "none" when no route does
Dispatch(method, path) ==
  LET hits == SelectSeq(Routes, LAMBDA r : r.method = method /\ r.path = path)
  IN IF hits = <<>> THEN "none" ELSE hits[1].handler

\* the answer to a request that no route and no later middleware takes
NotRouted(method, path) ==
  [res |-> [op |-> "none routed", status |-> 404, body |-> "Cannot " \o method],
   calls |-> <<>>]

\* the handler answers the request
Answer(request, r) ==
  /\ req' = request
  /\ res' = r.res
  /\ calls' = r.calls
  /\ pre' = store
  /\ UNCHANGED <<store, nextUuid, now, registry, handle, tasks>>

GetAllTopicsWith(got) ==
  /\ Idle
  /\ Dispatch("GET", <<"topics">>) = "getAllTopics"
  /\ \E query \in ListQueries, fault \in Faults :
       Answer([op |-> "getAllTopics", query |-> query, fault |-> fault],
              getAllTopics(got, store["topics"], query, fault))

GetAllCategoriesWith(got) ==
  /\ Idle
  /\ Dispatch("GET", <<"categories">>) = "getAllCategories"
  /\ \E query \in ListQueries, fault \in Faults :
       Answer([op |-> "getAllCategories", query |-> query, fault |-> fault],
              getAllCategories(got, store["categories"], query, fault))

GetAllEventsWith(got) ==
  /\ Idle
  /\ Dispatch("GET", <<"events">>) = "getAllEvents"
  /\ \E query \in ListQueries, fault \in Faults :
       Answer([op |-> "getAllEvents", query |-> query, fault |-> fault],
              getAllEvents(got, store["events"], query, fault))

GetAllNotesWith(got) ==
  /\ Idle
  /\ Dispatch("GET", <<"notes">>) = "getAllNotes"
  /\ \E query \in ListQueries, fault \in Faults :
       Answer([op |-> "getAllNotes", query |-> query, fault |-> fault],
              getAllNotes(got, store["notes"], query, fault))

SearchEntitiesWith(got) ==
  /\ Idle
  /\ Dispatch("GET", <<"search">>) = "searchEntities"
  /\ \E query \in SearchQueries, fault \in Faults :
       Answer([op |-> "searchEntities", query |-> query, fault |-> fault],
              searchEntities(got, store, query, fault))

\* GET /entities/{kind}/{id}
GetEntityById ==
  /\ Idle
  /\ \E k \in Kinds : \E id \in KnownIds(k) :
       /\ Dispatch("GET", <<k, id>>) = "none"
       /\ Answer([op |-> "getEntityById", kind |-> k, id |-> id], NotRouted("GET", <<k, id>>))

PostListed == PostWith(PageSlots, 1)

\* SIGINT: db.close()
Close ==
  /\ Idle
  /\ registry # Null
  /\ registry' = close(registry)
  /\ UNCHANGED <<store, nextUuid, now, req, res, pre, calls, handle, tasks>>

GetAllTopics == GetAllTopicsWith(getModels(registry))

GetAllCategories == GetAllCategoriesWith(getModels(registry))

GetAllEvents == GetAllEventsWith(getModels(registry))

GetAllNotes == GetAllNotesWith(getModels(registry))

SearchEntities == SearchEntitiesWith(getModels(registry))

NextList ==
  \/ PostListed
  \/ GetAllTopics
  \/ GetAllCategories
  \/ GetAllEvents
  \/ GetAllNotes
  \/ SearchEntities
  \/ GetEntityById
  \/ Close
  \/ Receive

SpecList == Init /\ [][NextList]_vars

PageTopics == GetAllTopicsWith(getModelsWrapped(registry))

PageCategories == GetAllCategoriesWith(getModelsWrapped(registry))

PageEvents == GetAllEventsWith(getModelsWrapped(registry))

PageNotes == GetAllNotesWith(getModelsWrapped(registry))

SearchPages == SearchEntitiesWith(getModelsWrapped(registry))

NextPages ==
  \/ PostListed
  \/ PageTopics
  \/ PageCategories
  \/ PageEvents
  \/ PageNotes
  \/ SearchPages
  \/ Tick
  \/ Receive

SpecPages == Init /\ [][NextPages]_vars

(***************************************************************************)
(* Properties of the batch responses.                                      *)
(***************************************************************************)
\* the list under key k of a response object, empty when the key was pruned
ListAt(obj, k) == IF Has(obj, k) THEN obj[k] ELSE <<>>

\* the items of kind k of the POST request being answered
ReqItems(k) == ListAt(req.body, k)

ItemCheck(k, i) == ValidateKind(k, ReqItems(k)[i].data, TruthyStr(ReqItems(k)[i].data, "id"))

FailsValidation(k, i) == ItemCheck(k, i).details # <<>>

IsUpdateItem(k, i) == TruthyStr(ItemCheck(k, i).value, "id")

\* item i of kind k validates and can be created or updated: the store
\* answers, and an update names a stored document that no earlier item of
\* the request names and changes one of its fields
CanSucceed(k, i) ==
  LET value == ItemCheck(k, i).value
      orig == findOne(pre[k], value.id)
  IN /\ ~FailsValidation(k, i)
     /\ ReqItems(k)[i].fault = "none"
     /\ IsUpdateItem(k, i) =>
          /\ orig # Null
          /\ Merge(orig, value) # orig
          /\ \A j \in 1..(i - 1) : IsUpdateItem(k, j) => ItemCheck(k, j).value.id # value.id

\* the response lists the document of item i under created or updated
Listed(k, i) ==
  LET value == ItemCheck(k, i).value
      carries(d) == \A f \in DOMAIN value : Has(d, f) /\ d[f] = value[f]
  IN IF IsUpdateItem(k, i)
       THEN \E n \in 1..Len(ListAt(res.body.updated, k)) : carries(res.body.updated[k][n])
       ELSE \E n \in 1..Len(ListAt(res.body.created, k)) : carries(res.body.created[k][n])

ListedInvalid(k, i) ==
  \E n \in 1..Len(ListAt(res.body.errors, k)) :
    res.body.errors[k][n] = [data |-> ReqItems(k)[i].data,
                             error |-> "Validation error: " \o ItemCheck(k, i).details[1]]

BatchOps == {"post", "get", "delete"}

ListFields == {"created", "updated", "data", "deleted", "errors"}

\* C3: no response of POST, GET or DELETE /entities holds an empty list
\* under created, updated, data, deleted or errors.
C3_NoEmptyLists ==
  res.op \in BatchOps =>
    \A f \in ListFields \cap DOMAIN res.body :
      \A k \in DOMAIN res.body[f] : Len(res.body[f][k]) > 0

C3_Witness ==
  /\ res.op = "post"
  /\ \E k \in Kinds :
       /\ Len(ReqItems(k)) > 0
       /\ ~Has(res.body.created, k)
       /\ ~Has(res.body.updated, k)
       /\ Has(res.body.errors, k)

\* C4: when the body of a POST /entities request has no key for a kind, or
\* an empty list, created, updated and errors have no key for that kind.
C4_AbsentKind ==
  res.op = "post" =>
    \A k \in Kinds :
      (~Has(req.body, k) \/ Len(req.body[k]) = 0) =>
        /\ ~Has(res.body.created, k)
        /\ ~Has(res.body.updated, k)
        /\ ~Has(res.body.errors, k)

C4_Witness ==
  /\ res.op = "post"
  /\ Has(req.body, "categories")
  /\ Len(req.body["categories"]) = 0
  /\ Has(res.body.created, "topics")

\* the strings of a query value that parseIds keeps
KeptIds(k) ==
  SelectSeq(ListAt(req.body, IdsKey(k)), LAMBDA e : e.data \notin {""} \cup {Pad("")})

\* C5: every item gets exactly one outcome.  POST: created, updated and
\* errors of a kind together have as many entries as the kind has items.
\* GET: data and errors of a kind together have as many entries as the
\* query has non-blank ids, duplicates counted.  DELETE: deleted and errors
\* of a kind together have as many entries as the body has ids.
C5_OneOutcomeEach ==
  \A k \in Kinds :
    /\ res.op = "post" =>
         Len(ListAt(res.body.created, k)) + Len(ListAt(res.body.updated, k))
           + Len(ListAt(res.body.errors, k)) = Len(ReqItems(k))
    /\ res.op = "get" =>
         Len(ListAt(res.body.data, k)) + Len(ListAt(res.body.errors, k)) = Len(KeptIds(k))
    /\ res.op = "delete" =>
         Len(ListAt(res.body.deleted, k)) + Len(ListAt(res.body.errors, k))
           = Len(ListAt(req.body, IdsKey(k)))

C5_Witness ==
  /\ res.op = "get"
  /\ \E k \in Kinds :
       /\ Len(KeptIds(k)) = 2
       /\ KeptIds(k)[1].data = KeptIds(k)[2].data
       /\ Len(ListAt(res.body.data, k)) = 2

\* the last document with identifier id in a list of documents
LastWithId(docs, id) ==
  docs[CHOOSE n \in 1..Len(docs) :
         docs[n].id = id /\ \A m \in (n + 1)..Len(docs) : docs[m].id # id]

\* C6: when an item of a POST /entities batch has failed, every document
\* the response lists as created is stored as listed, every document it
\* lists as updated is stored as its last listing says, whatever the kind,
\* and every item that can be created or updated has been, whatever failed
\* before it.
C6_NonTransactional ==
  (res.op = "post" /\ res.status = 207) =>
    \A k \in Kinds :
      /\ \A n \in 1..Len(ListAt(res.body.created, k)) :
           findOne(store[k], res.body.created[k][n].id) = res.body.created[k][n]
      /\ \A n \in 1..Len(ListAt(res.body.updated, k)) :
           findOne(store[k], res.body.updated[k][n].id)
             = LastWithId(res.body.updated[k], res.body.updated[k][n].id)
      /\ \A i \in 1..Len(ReqItems(k)) : CanSucceed(k, i) => Listed(k, i)

C6_Witness ==
  /\ res.op = "post"
  /\ \E k1, k2 \in Kinds :
       /\ KindIndex(k1) < KindIndex(k2)
       /\ Has(res.body.created, k1)
       /\ Has(res.body.errors, k2)
       /\ res.body.errors[k2][1].error = StoreErrorMessage

\* item i of kind k validates and carries an id that no document stored
\* when the request arrived has
NamesNoDocument(k, i) ==
  /\ ~FailsValidation(k, i)
  /\ IsUpdateItem(k, i)
  /\ findOne(pre[k], ItemCheck(k, i).value.id) = Null

CreatedEntries == {e \in Kinds \X (1..MaxItems + 1) : e[2] <= Len(ListAt(res.body.created, e[1]))}

CreatedDoc(e) == res.body.created[e[1]][e[2]]

\* C9: every document a POST /entities response lists as created is stored
\* with a non-empty id that no document of its collection had when the
\* request arrived, and no two documents created by one request, of the
\* same kind or not, have the same id.
C9_GeneratedIds ==
  res.op = "post" =>
    /\ \A e \in CreatedEntries :
         /\ CreatedDoc(e).id # ""
         /\ findOne(store[e[1]], CreatedDoc(e).id) = CreatedDoc(e)
         /\ findOne(pre[e[1]], CreatedDoc(e).id) = Null
    /\ \A e1, e2 \in CreatedEntries : e1 # e2 => CreatedDoc(e1).id # CreatedDoc(e2).id

C9_Witness ==
  /\ res.op = "post"
  /\ \E e1, e2 \in CreatedEntries : e1[1] # e2[1]

RepeatedUpdate(k) ==
  /\ res.op = "post"
  /\ ~Has(req, "again")
  /\ req' = [op |-> "post", body |-> req.body, again |-> TRUE]
  /\ Len(ReqItems(k)) = 1
  /\ IsUpdateItem(k, 1)
  /\ findOne(pre[k], ItemCheck(k, 1).value.id) # Null

\* the messages of the update branch that do not report a validation error
OtherErrors(k) ==
  {Label(k).cap \o " with ID " \o ItemCheck(k, 1).value.id \o " not found",
   "Failed to update " \o Label(k).low \o " with ID " \o ItemCheck(k, 1).value.id,
   StoreErrorMessage}

ValidationErrorIn(r, k) ==
  \E n \in 1..Len(ListAt(r.body.errors, k)) : r.body.errors[k][n].error \notin OtherErrors(k)

SansUpdatedAt(d) == Restrict(d, (DOMAIN d) \ {"updated_at"})

DeleteIds(k) == ListAt(req.body, IdsKey(k))

NotFoundEntry(k, id) == [id |-> id, error |-> Label(k).cap \o " with ID " \o id \o " not found"]

InList(q, x) == \E n \in 1..Len(q) : q[n] = x

\* the request names one id, of kind k, of a stored document, and the store answers
DeletesOne(k) ==
  /\ DOMAIN req.body = {IdsKey(k)}
  /\ Len(DeleteIds(k)) = 1
  /\ DeleteIds(k)[1].fault = "none"
  /\ findOne(pre[k], DeleteIds(k)[1].data) # Null

C12_SearchRequiresQuery ==
  (res.op = "searchEntities" /\ ~TruthyStr(req.query, "q")) =>
    /\ res.status = 400
    /\ res.body = [error |-> [message |-> "Search query is required"]]
    /\ calls = <<>>

\* an empty q with types and limit given, after the registry was closed
C12_Witness ==
  /\ res.op = "searchEntities"
  /\ Has(req.query, "q")
  /\ req.query.q = ""
  /\ Has(req.query, "types")
  /\ Has(req.query, "limit")
  /\ registry = Null
  /\ res.status = 400

ListOps == {"getAllTopics", "getAllCategories", "getAllEvents", "getAllNotes"}

\* the kind a listing handler lists
ListedKind(op) ==
  CASE op = "getAllTopics" -> "topics"
    [] op = "getAllCategories" -> "categories"
    [] op = "getAllEvents" -> "events"
    [] op = "getAllNotes" -> "notes"

\* C13: when the registry cannot be obtained or the listing call fails,
\* the listing of each of the four kinds is answered 200, no error reaches
\* the error handler, and topics and categories get their fallback
\* dataset.
C13_FallbackWhenUnavailable ==
  (res.op \in ListOps /\ (registry = Null \/ req.fault = "throw")) =>
    /\ res.status = 200
    /\ ~Has(res.body, "error")
    /\ res.op = "getAllTopics" => res.body.topics = getSampleTopics
    /\ res.op = "getAllCategories" => res.body.categories = getSampleCategories

\* C14: while the registry is open and the store answers, the listings of
\* topics and categories call the listing method of the adapter and return
\* the page of the stored documents.
C14_StoredWhenConnected ==
  (res.op \in {"getAllTopics", "getAllCategories"} /\ registry # Null /\ req.fault = "none") =>
    LET limit == IntOr(req.query, "limit", DefaultLimit)
        skip == IntOr(req.query, "skip", 0)
    IN /\ res.status = 200
       /\ res.op = "getAllTopics" =>
            /\ res.body.topics = TopicGetAll(store["topics"], limit, skip)
            /\ InList(calls, "topics.getAll")
       /\ res.op = "getAllCategories" =>
            /\ res.body.categories = CategoryGetAll(store["categories"], limit, skip)
            /\ InList(calls, "categories.getAll")

\* C15: GET /entities/{kind}/{id} is answered 200 with the stored document
\* of that id when there is one, and 404 when there is none.
C15_GetById ==
  (req.op = "getEntityById" /\ res.op # "none") =>
    IF findOne(store[req.kind], req.id) # Null
      THEN res.status = 200 /\ res.body = findOne(store[req.kind], req.id)
      ELSE res.status = 404

\* the documents are in the order priority descending, then name ascending
InPriorityNameOrder(docs) ==
  \A i, j \in 1..Len(docs) :
    i < j => \/ NumKey(docs[i], "priority") > NumKey(docs[j], "priority")
             \/ /\ NumKey(docs[i], "priority") = NumKey(docs[j], "priority")
                /\ Rank(docs[i].name) <= Rank(docs[j].name)

\* C16: the documents a listing of topics or of categories returns from
\* the store are in the order priority descending, then name ascending.
C16_ListingOrder ==
  (res.op \in {"getAllTopics", "getAllCategories"} /\ req.fault = "none" /\ res.status = 200) =>
    InPriorityNameOrder(res.body[ListedKind(res.op)])

\* the documents of a kind in the default order of its listing
DefaultOrder(kind, coll) ==
  CASE kind = "topics" -> ByPriorityThenName(coll)
    [] kind = "categories" -> ByName(coll)
    [] kind = "events" -> ByPriority(coll)
    [] kind = "notes" -> ByNewest(coll)

\* the query gives limit and skip as numbers
Paged(query) ==
  /\ Has(query, "limit") /\ ~ParseInt(query.limit).nan
  /\ Has(query, "skip") /\ ~ParseInt(query.skip).nan

\* items skip + 1 .. skip + limit of docs
Window(docs, skip, limit) ==
  SubSeq(docs, skip + 1, IF skip + limit > Len(docs) THEN Len(docs) ELSE skip + limit)

\* C17: for every kind, a listing with limit L and skip S returns items
\* S + 1 .. S + L of all the documents of the kind in its default order.
C17_Pagination ==
  (res.op \in ListOps /\ req.fault = "none" /\ Paged(req.query)) =>
    /\ res.status = 200
    /\ res.body[ListedKind(res.op)] =
         Window(DefaultOrder(ListedKind(res.op), store[ListedKind(res.op)]),
                ParseInt(req.query.skip).n, ParseInt(req.query.limit).n)

\* the ids a DELETE /entities response lists as deleted for collection c
DeletedIds(c) == IF c \in Kinds THEN SeqToSet(ListAt(res.body.deleted, c)) ELSE {}

\* document d refers to id
RefersTo(d, id) ==
  \/ Has(d, "reference_id") /\ d.reference_id = id
  \/ Has(d, "categories_ids") /\ id \in SeqToSet(d.categories_ids)

\* C18: after a DELETE /entities request every collection holds the
\* documents it held before, unchanged and in the same order, except the
\* documents whose id the response lists under deleted for that collection;
\* documents that refer to a deleted id keep the reference.
C18_DeleteOnlyDeleted ==
  res.op = "delete" =>
    \A c \in Collections :
      store[c] = SelectSeq(pre[c], LAMBDA d : d.id \notin DeletedIds(c))

\* a deleted id to which a stored document still refers
C18_Witness ==
  /\ res.op = "delete"
  /\ \E k \in Kinds : \E id \in DeletedIds(k) :
       /\ findOne(pre[k], id) # Null
       /\ findOne(store[k], id) = Null
       /\ \E c \in Kinds : \E n \in 1..Len(store[c]) : RefersTo(store[c][n], id)

(***************************************************************************)
(* Properties of the documents POST /entities stores.                      *)
(***************************************************************************)
\* the request has one item, of kind k, and the response lists its document as updated
UpdatedOne(k) ==
  /\ res.op = "post"
  /\ Len(ReqItems(k)) = 1
  /\ Len(ListAt(res.body.updated, k)) = 1
  /\ findOne(pre[k], ItemCheck(k, 1).value.id) # Null

\* the stored document of the item has the fields it had before the
\* request and those of the payload, and outside the payload and the
\* fields in except it has the values it had
KeepsOtherFields(k, except) ==
  LET value == ItemCheck(k, 1).value
      before == findOne(pre[k], value.id)
      after == findOne(store[k], value.id)
  IN /\ DOMAIN after = (DOMAIN before) \cup (DOMAIN value)
     /\ \A f \in (DOMAIN before) \ ((DOMAIN value) \cup except) : after[f] = before[f]

NoItemGives(k, f) == \A i \in 1..Len(ReqItems(k)) : ~Has(ReqItems(k)[i].data, f)

C21_FixedPathsDispatched ==
  (req.op = "GET /api/articles" /\ res.op # "none") =>
    /\ req.path = <<"search">> => res.op = "searchArticles"
    /\ req.path = <<"priority">> => res.op = "getPriorityArticles"
    /\ req.path = <<"unread">> => res.op = "getUnreadArticles"
    /\ req.path[1] \in FixedArticlePaths => res.op # "getArticleById"

\* C22: when a store operation throws while an item of a POST, GET or
\* DELETE /entities batch is processed, the message of the exception does
\* not appear in the entries of errors[kind] of the response.
C22_GenericStoreError ==
  res.op \in {"post", "get", "delete"} =>
    \A k \in Kinds : \A n \in 1..Len(ListAt(res.body.errors, k)) :
      res.body.errors[k][n].error # StoreErrorMessage

(***************************************************************************)
(* Reference arrays: entities that name each other, written through POST   *)
(* /entities, POST /api/articles, Topic.addArticle and Category.addTopic.  *)
(***************************************************************************)
\* creates of topics and categories that name an id given out before
LinkSlots ==
  {Slot(k, ReqPayload(k), "none") : k \in {"topics", "categories"}}
  \cup {Slot("topics", [name |-> "A", categories_ids |-> <<i>>], "none") : i \in IssuedIds}
  \cup {Slot("topics", [name |-> "A", articles_ids |-> <<i>>], "none") : i \in IssuedIds}
  \cup {Slot("categories", [name |-> "A", topics_ids |-> <<i>>], "none") : i \in IssuedIds}

PostLinked == PostWith(LinkSlots, 1)

\* POST /api/articles, the article naming no topic or a topic id given out before
CreateLinkedArticle ==
  /\ Idle
  /\ nextUuid <= MaxUuid
  /\ \E body \in {ReqPayload("articles")}
                 \cup {Merge(ReqPayload("articles"), [topics_ids |-> <<i>>]) : i \in IssuedIds} :
    LET r == createArticle(store["articles"], nextUuid, body, now)
    IN /\ store' = [store EXCEPT !["articles"] = r.coll]
       /\ nextUuid' = r.uuid
       /\ req' = [op |-> "createArticle", body |-> body]
       /\ res' = r.res
       /\ pre' = store
       /\ UNCHANGED <<now, registry, calls, handle, tasks>>

\* models.topics.addArticle(topicId, articleId) with a stored topic and an id given out
AddArticle ==
  /\ Idle
  /\ \E topicId \in StoredIds("topics"), articleId \in IssuedIds :
    LET r == TopicAddArticle(store["topics"], topicId, articleId)
    IN /\ store' = [store EXCEPT !["topics"] = r.coll]
       /\ req' = [op |-> "Topic.addArticle", topicId |-> topicId, articleId |-> articleId]
       /\ res' = [op |-> "Topic.addArticle", value |-> r.modified]
       /\ pre' = store
       /\ UNCHANGED <<nextUuid, now, registry, calls, handle, tasks>>

\* models.categories.addTopic(categoryId, topicId) with a stored category and an id given out
AddTopic ==
  /\ Idle
  /\ \E categoryId \in StoredIds("categories"), topicId \in IssuedIds :
    LET r == CategoryAddTopic(store["categories"], categoryId, topicId)
    IN /\ store' = [store EXCEPT !["categories"] = r.coll]
       /\ req' = [op |-> "Category.addTopic", categoryId |-> categoryId, topicId |-> topicId]
       /\ res' = [op |-> "Category.addTopic", value |-> r.modified]
       /\ pre' = store
       /\ UNCHANGED <<nextUuid, now, registry, calls, handle, tasks>>

NextRefs ==
  \/ PostLinked
  \/ CreateLinkedArticle
  \/ AddArticle
  \/ AddTopic
  \/ Receive

SpecRefs == Init /\ [][NextRefs]_vars

\* every document of kind `from` that names, in its array `field`, the id of
\* a stored document of kind `to` is named by it in that one's array `back`
Mutual(from, field, to, back) ==
  \A i \in 1..Len(store[from]) : \A n \in 1..Len(ListAt(store[from][i], field)) :
    LET other == findOne(store[to], store[from][i][field][n])
    IN other # Null => InList(ListAt(other, back), store[from][i].id)

\* C23: when a stored topic lists a stored category in categories_ids, the
\* category lists the topic in topics_ids; when a stored topic lists a
\* stored article in articles_ids, the article lists the topic in
\* topics_ids.
C23_ReferencesMutual ==
  /\ Mutual("topics", "categories_ids", "categories", "topics_ids")
  /\ Mutual("topics", "articles_ids", "articles", "topics_ids")

(***************************************************************************)
(* Subcategories: the documents embedded in a Category, written through    *)
(* POST /entities and the parent-scoped operations of the Category adapter.*)
(***************************************************************************)
SubIds == {"s1", "s2"}

Subcategory(id) == [id |-> id, name |-> "A"]

\* categories created with and without subcategories, and stored categories
\* given a new list of them
SubSlots ==
  {Slot("categories", d, "none") :
     d \in {[name |-> "A"],
            [name |-> "A", subcategories |-> <<Subcategory("s1")>>],
            [name |-> "A", subcategories |-> <<Subcategory("s1"), Subcategory("s1")>>],
            [name |-> "A", subcategories |-> <<[name |-> "A"]>>]}}
  \cup {Slot("categories", [id |-> i, subcategories |-> <<Subcategory("s1"), Subcategory("s2")>>], "none")
          : i \in StoredIds("categories")}

PostCategory == PostWith(SubSlots, 1)

\* the subcategories stored in the category of an id
SubsOf(id) == ListAt(findOne(store["categories"], id), "subcategories")

\* models.categories.addSubcategory(categoryId, subcategory); a subcategory
\* without an id is given a new one
AddSubcategory ==
  /\ Idle
  /\ \E categoryId \in StoredIds("categories") :
     \E subcategory \in {Subcategory(i) : i \in SubIds} \cup {[name |-> "A"]} :
    LET r == CategoryAddSubcategory(store["categories"], categoryId, subcategory, Uuid(nextUuid))
    IN /\ Len(SubsOf(categoryId)) < MaxSubs
       /\ TruthyStr(subcategory, "id") \/ nextUuid <= MaxUuid
       /\ store' = [store EXCEPT !["categories"] = r.coll]
       /\ nextUuid' = IF TruthyStr(subcategory, "id") THEN nextUuid ELSE nextUuid + 1
       /\ req' = [op |-> "Category.addSubcategory", categoryId |-> categoryId,
                  subcategory |-> subcategory]
       /\ res' = [op |-> "Category.addSubcategory", value |-> r.value]
       /\ pre' = store
       /\ UNCHANGED <<now, registry, calls, handle, tasks>>

\* models.categories.updateSubcategory(categoryId, subcategoryId, updateData)
UpdateSubcategory ==
  /\ Idle
  /\ \E categoryId \in StoredIds("categories"), subcategoryId \in SubIds :
     \E updateData \in {[name |-> "B"], [id |-> "s2"]} :
    LET r == CategoryUpdateSubcategory(store["categories"], categoryId, subcategoryId, updateData)
    IN /\ store' = [store EXCEPT !["categories"] = r.coll]
       /\ req' = [op |-> "Category.updateSubcategory", categoryId |-> categoryId,
                  subcategoryId |-> subcategoryId, updateData |-> updateData]
       /\ res' = [op |-> "Category.updateSubcategory", value |-> r.modified]
       /\ pre' = store
       /\ UNCHANGED <<nextUuid, now, registry, calls, handle, tasks>>

\* models.categories.removeSubcategory(categoryId, subcategoryId)
RemoveSubcategory ==
  /\ Idle
  /\ \E categoryId \in StoredIds("categories"), subcategoryId \in SubIds :
    LET r == CategoryRemoveSubcategory(store["categories"], categoryId, subcategoryId)
    IN /\ store' = [store EXCEPT !["categories"] = r.coll]
       /\ req' = [op |-> "Category.removeSubcategory", categoryId |-> categoryId,
                  subcategoryId |-> subcategoryId]
       /\ res' = [op |-> "Category.removeSubcategory", value |-> r.modified]
       /\ pre' = store
       /\ UNCHANGED <<nextUuid, now, registry, calls, handle, tasks>>

NextSubs ==
  \/ PostCategory
  \/ AddSubcategory
  \/ UpdateSubcategory
  \/ RemoveSubcategory
  \/ Receive

SpecSubs == Init /\ [][NextSubs]_vars

\* C26: the ids of the subcategories embedded in a stored Category are
\* pairwise distinct.
C26_SubcategoryIdsDistinct ==
  \A i \in 1..Len(store["categories"]) :
    LET subs == ListAt(store["categories"][i], "subcategories")
    IN \A a, b \in 1..Len(subs) : subs[a].id = subs[b].id => a = b

\* the response r reports the update of the stored document d of kind k as done
UpdateDone(r, k, d) ==
  /\ r.status = 200
  /\ r.body.success
  /\ ListAt(r.body.updated, k) = <<d>>

\* C29: when the same valid update item of a stored document is answered
\* twice in succession, both answers have success = true, status 200 and
\* the stored document under updated[kind], for each kind.
C29_UpdateTwiceDone ==
  [][\A k \in Kinds :
       (RepeatedUpdate(k) /\ ~FailsValidation(k, 1)) =>
         /\ UpdateDone(res, k, findOne(store[k], ItemCheck(k, 1).value.id))
         /\ UpdateDone(res', k, findOne(store'[k], ItemCheck(k, 1).value.id))]_vars

\* the article POST /api/articles has just stored
CreatedArticle == store["articles"][Len(store["articles"])]

InitConnect ==
  /\ store = [c \in Collections |-> <<>>]
  /\ nextUuid = 1
  /\ now = 0
  /\ req = None
  /\ res = None
  /\ pre = [c \in Collections |-> <<>>]
  /\ registry = Null
  /\ calls = <<>>
  /\ handle = [db |-> 0, clients |-> 0, inits |-> 0]
  /\ tasks = [p \in Tasks |-> NoTask]

\* connect() is called: `if (_db) return { db: _db, models: _models }`,
\* else `new MongoClient(url)` and `await client.connect()`
ConnectCall(p) ==
  /\ tasks[p].pc = "idle"
  /\ IF handle.db # 0
       THEN /\ tasks' = [tasks EXCEPT ![p] = [pc |-> "returned",
                                              value |-> Returned([db |-> handle.db, models |-> registry])]]
            /\ UNCHANGED handle
       ELSE /\ handle.clients < MaxClients
            /\ handle' = [handle EXCEPT !.clients = @ + 1]
            /\ tasks' = [tasks EXCEPT ![p] = [pc |-> "connecting", client |-> handle.clients + 1]]
  /\ UNCHANGED <<store, nextUuid, now, req, res, pre, registry, calls>>

\* client.connect() resolves: `_db = client.db(dbName)`, then the first
\* `await <Model>.initialize(_db)`
ConnectOpened(p) ==
  /\ tasks[p].pc = "connecting"
  /\ handle' = [handle EXCEPT !.db = tasks[p].client]
  /\ tasks' = [tasks EXCEPT ![p] = [pc |-> "initializing", client |-> tasks[p].client]]
  /\ UNCHANGED <<store, nextUuid, now, req, res, pre, registry, calls>>

\* client.connect() rejects: the catch block rethrows
ConnectFailed(p) ==
  /\ tasks[p].pc = "connecting"
  /\ tasks' = [tasks EXCEPT ![p] = [pc |-> "returned", value |-> Raised(StoreErrorMessage)]]
  /\ UNCHANGED <<store, nextUuid, now, req, res, pre, registry, calls, handle>>

\* the five initialize() calls have resolved: `_models = {...}` and
\* `return { db: _db, models: _models }`
ConnectInitialized(p) ==
  /\ tasks[p].pc = "initializing"
  /\ registry' = Connected
  /\ handle' = [handle EXCEPT !.inits = @ + 1]
  /\ tasks' = [tasks EXCEPT ![p] = [pc |-> "returned",
                                    value |-> Returned([db |-> handle.db, models |-> Connected])]]
  /\ UNCHANGED <<store, nextUuid, now, req, res, pre, calls>>

\* the caller has the value; the slot is free for the next call
ConnectReturned(p) ==
  /\ tasks[p].pc = "returned"
  /\ tasks' = [tasks EXCEPT ![p] = NoTask]
  /\ UNCHANGED <<store, nextUuid, now, req, res, pre, registry, calls, handle>>

NextConnect ==
  \E p \in Tasks :
    \/ ConnectCall(p)
    \/ ConnectOpened(p)
    \/ ConnectFailed(p)
    \/ ConnectInitialized(p)
    \/ ConnectReturned(p)

SpecConnect == InitConnect /\ [][NextConnect]_vars

\* C25: however connect() calls follow each other or interleave, at most
\* one client is created, the models are initialized at most once, and the
\* calls that return a value return the same db handle and registry.
C25_ConnectOnce ==
  /\ handle.clients <= 1
  /\ handle.inits <= 1
  /\ \A p, q \in Tasks :
       (/\ tasks[p].pc = "returned" /\ ~tasks[p].value.threw
        /\ tasks[q].pc = "returned" /\ ~tasks[q].value.threw) =>
         tasks[p].value = tasks[q].value

(***************************************************************************)
(* Two requests in flight.  A handler runs to its next await in one step   *)
(* and each adapter call is one operation of the store, so the steps of    *)
(* the two handlers interleave between their adapter calls.  A request     *)
(* carries one item: an update through POST /entities or an id of DELETE   *)
(* /entities.  tasks[p] holds the handler's position and its locals.       *)
(***************************************************************************)
Racers == {1, 2}

RaceKinds == {"topics", "notes"}

\* the outcome of the POST /entities that created a topic and a note
Seeded ==
  createOrUpdateEntities([c \in Collections |-> <<>>], 1,
                         [k \in RaceKinds |-> <<[data |-> ReqPayload(k), fault |-> "none"]>>], 0)

SeedIds(k) == {Seeded.store[k][i].id : i \in 1..Len(Seeded.store[k])}

\* updates of a seeded document: each sets priority and one field of its own
RacePayloads(k) ==
  IF k = "topics"
    THEN UNION {{[id |-> i, priority |-> 1, description |-> "A"],
                 [id |-> i, priority |-> 2, unread_count |-> 1]} : i \in SeedIds(k)}
    ELSE UNION {{[id |-> i, priority |-> 1, content |-> "B"],
                 [id |-> i, priority |-> 2, is_archived |-> TRUE]} : i \in SeedIds(k)}

InitRace ==
  /\ store = Seeded.store
  /\ nextUuid = Seeded.uuid
  /\ now = 0
  /\ req = None
  /\ res = None
  /\ pre = Seeded.store
  /\ registry = Connected
  /\ calls = <<>>
  /\ handle = Opened
  /\ tasks = [p \in Racers |-> NoTask]

\* response.created[kind] = response.updated[kind] = response.errors[kind] = []
PostSection(kind) ==
  [created |-> [k \in {kind} |-> <<>>], updated |-> [k \in {kind} |-> <<>>],
   errors |-> [k \in {kind} |-> <<>>]]

\* response.deleted[kind] = response.errors[kind] = []
DeleteSection(kind) == [deleted |-> [k \in {kind} |-> <<>>], errors |-> [k \in {kind} |-> <<>>]]

\* the response of createOrUpdateEntities from the sections st
PostAnswer(st) == PostResponse([store |-> store, uuid |-> nextUuid, created |-> st.created,
                                updated |-> st.updated, errors |-> st.errors]).res

\* the response of deleteEntities from the sections st
DeleteAnswer(st) ==
  [op |-> "delete", status |-> IF DOMAIN Prune(st.errors) = {} THEN 200 ELSE 207,
   body |-> [success |-> DOMAIN Prune(st.errors) = {}, deleted |-> Prune(st.deleted),
             errors |-> Prune(st.errors)]]

\* the handler of task p has sent its response
Done(p, r) == [tasks[p] EXCEPT !.pc = "done", !.res = r]

\* POST /entities with one update item arrives: the item is validated and
\* findById is called
UpdateStart(p) ==
  /\ tasks[p].pc = "idle"
  /\ \E k \in RaceKinds : \E data \in RacePayloads(k) :
    LET v == ValidateKind(k, data, TruthyStr(data, "id"))
        t == [pc |-> "find", op |-> "update", kind |-> k, data |-> data, value |-> v.value,
              res |-> None, wrote |-> FALSE, last |-> FALSE]
    IN tasks' = [tasks EXCEPT ![p] =
                   IF v.details # <<>>
                     THEN [t EXCEPT !.pc = "done",
                                    !.res = PostAnswer(Fail(PostSection(k), k, data,
                                                            "Validation error: " \o v.details[1]))]
                     ELSE t]
  /\ UNCHANGED <<store, nextUuid, now, req, res, pre, registry, calls, handle>>

\* findById(value.id) answers
UpdateFind(p) ==
  /\ tasks[p].pc = "find"
  /\ tasks[p].op = "update"
  /\ LET k == tasks[p].kind
         id == tasks[p].value.id
     IN tasks' = [tasks EXCEPT ![p] =
                    IF ModelFindById(k, store[k], id) = Null
                      THEN Done(p, PostAnswer(Fail(PostSection(k), k, tasks[p].data,
                                                   Label(k).cap \o " with ID " \o id \o " not found")))
                      ELSE [@ EXCEPT !.pc = "write"]]
  /\ UNCHANGED <<store, nextUuid, now, req, res, pre, registry, calls, handle>>

\* update(value.id, value) answers; the task remembers the document before
\* and after its write, and that its write is the latest
UpdateWrite(p) ==
  /\ tasks[p].pc = "write"
  /\ tasks[p].op = "update"
  /\ LET k == tasks[p].kind
         id == tasks[p].value.id
         u == ModelUpdate(k, store[k], id, tasks[p].value, now)
         wrote == [before |-> findOne(store[k], id), after |-> findOne(u.coll, id), at |-> now]
         mine == IF ~u.modified
                   THEN Done(p, PostAnswer(Fail(PostSection(k), k, tasks[p].data,
                                                "Failed to update " \o Label(k).low \o " with ID " \o id)))
                   ELSE [tasks[p] EXCEPT !.pc = "refetch"]
     IN /\ store' = [store EXCEPT ![k] = u.coll]
        /\ tasks' = [q \in Racers |->
                       IF q = p THEN Merge([mine EXCEPT !.wrote = TRUE, !.last = TRUE], wrote)
                       ELSE IF tasks[q].pc # "idle" /\ tasks[q].op = "update"
                         THEN [tasks[q] EXCEPT !.last = FALSE]
                       ELSE tasks[q]]
  /\ UNCHANGED <<nextUuid, now, req, res, pre, registry, calls, handle>>

\* the second findById(value.id) answers and its value is pushed to updated
UpdateRefetch(p) ==
  /\ tasks[p].pc = "refetch"
  /\ LET k == tasks[p].kind
         st == PostSection(k)
     IN tasks' = [tasks EXCEPT ![p] =
                    Done(p, PostAnswer([st EXCEPT !.updated =
                                          PushTo(@, k, ModelFindById(k, store[k], tasks[p].value.id))]))]
  /\ UNCHANGED <<store, nextUuid, now, req, res, pre, registry, calls, handle>>

\* DELETE /entities naming one id arrives and findById is called
DeleteStart(p) ==
  /\ tasks[p].pc = "idle"
  /\ \E k \in RaceKinds : \E id \in SeedIds(k) :
       tasks' = [tasks EXCEPT ![p] = [pc |-> "find", op |-> "delete", kind |-> k, id |-> id,
                                      res |-> None, existed |-> findOne(store[k], id) # Null]]
  /\ UNCHANGED <<store, nextUuid, now, req, res, pre, registry, calls, handle>>

\* findById(id) answers
DeleteFind(p) ==
  /\ tasks[p].pc = "find"
  /\ tasks[p].op = "delete"
  /\ LET k == tasks[p].kind
         id == tasks[p].id
         st == DeleteSection(k)
     IN tasks' = [tasks EXCEPT ![p] =
                    IF ModelFindById(k, store[k], id) = Null
                      THEN Done(p, DeleteAnswer([st EXCEPT !.errors = PushTo(@, k, NotFoundEntry(k, id))]))
                      ELSE [@ EXCEPT !.pc = "write"]]
  /\ UNCHANGED <<store, nextUuid, now, req, res, pre, registry, calls, handle>>

\* delete(id) answers
DeleteWrite(p) ==
  /\ tasks[p].pc = "write"
  /\ tasks[p].op = "delete"
  /\ LET k == tasks[p].kind
         id == tasks[p].id
         st == DeleteSection(k)
         d == ModelDelete(k, store[k], id)
         failed == [id |-> id, error |-> "Failed to delete " \o Label(k).low \o " with ID " \o id]
     IN /\ store' = [store EXCEPT ![k] = d.coll]
        /\ tasks' = [tasks EXCEPT ![p] =
                       IF ~d.deleted
                         THEN Done(p, DeleteAnswer([st EXCEPT !.errors = PushTo(@, k, failed)]))
                         ELSE Done(p, DeleteAnswer([st EXCEPT !.deleted = PushTo(@, k, id)]))]
  /\ UNCHANGED <<nextUuid, now, req, res, pre, registry, calls, handle>>

\* the client has read the response of task p
TaskReceived(p) ==
  /\ tasks[p].pc = "done"
  /\ tasks' = [tasks EXCEPT ![p] = NoTask]
  /\ UNCHANGED <<store, nextUuid, now, req, res, pre, registry, calls, handle>>

NextRace ==
  \/ \E p \in Racers :
       \/ UpdateStart(p)
       \/ UpdateFind(p)
       \/ UpdateWrite(p)
       \/ UpdateRefetch(p)
       \/ DeleteStart(p)
       \/ DeleteFind(p)
       \/ DeleteWrite(p)
       \/ TaskReceived(p)
  \/ Tick

SpecRace == InitRace /\ [][NextRace]_vars

\* both tasks hold an update of the same document, both have written, and
\* the write of q came straight after the write of p
WroteInTurn(p, q) ==
  /\ p # q
  /\ tasks[p].pc # "idle" /\ tasks[p].op = "update" /\ tasks[p].wrote
  /\ tasks[q].pc # "idle" /\ tasks[q].op = "update" /\ tasks[q].wrote
  /\ tasks[p].kind = tasks[q].kind
  /\ tasks[p].value.id = tasks[q].value.id
  /\ tasks[q].last
  /\ tasks[q].before = tasks[p].after

\* the stored document d after the writes of p, then q, onto the document
\* orig: a field set by q has q's value, a field set by p alone has p's,
\* and every field outside `free` that neither sets is as in orig
LastWriteWins(d, orig, pv, qv, free) ==
  /\ \A f \in DOMAIN qv : Has(d, f) /\ d[f] = qv[f]
  /\ \A f \in (DOMAIN pv) \ (DOMAIN qv) : Has(d, f) /\ d[f] = pv[f]
  /\ \A f \in ((DOMAIN d) \cup (DOMAIN orig)) \ ((DOMAIN pv) \cup (DOMAIN qv) \cup free) :
       Has(d, f) /\ Has(orig, f) /\ d[f] = orig[f]

DeletedExisting(p) ==
  /\ tasks[p].pc = "done"
  /\ tasks[p].op = "delete"
  /\ tasks[p].existed

\* the response r lists the id under deleted[k]
ListsDeleted(r, k, id) == InList(ListAt(r.body.deleted, k), id)

\* the response r has an entry for the id under errors[k], not found or delete failed
ListsDeleteError(r, k, id) ==
  \/ InList(ListAt(r.body.errors, k), NotFoundEntry(k, id))
  \/ InList(ListAt(r.body.errors, k),
            [id |-> id, error |-> "Failed to delete " \o Label(k).low \o " with ID " \o id])

====
